---------------------------- MODULE Spec2Model ----------------------------
(***************************************************************************)
(* Model of the museum single-page application: the search engine          *)
(* (SearchSystem), the content controllers' loaded collections, and the    *)
(* hash router (Router).                                                   *)
(*                                                                         *)
(* Text is modelled as a sequence of one-character strings, so that        *)
(* toLowerCase, trim and includes are computed and not assumed.  A route   *)
(* path is modelled as the sequence of its '/'-separated parts, i.e. the   *)
(* value of route.split('/'): '' is <<"">> and '/works/personal' is        *)
(* <<"", "works", "personal">>.                                            *)
(***************************************************************************)
EXTENDS Integers, Sequences, FiniteSets, TLC

VARIABLES
    \* content controllers (window.<X>Controller.<collection>)
    presentControllers,   \* the controllers defined on window
    collections,          \* controller name -> Null | Object(<<[key, value], ...>>)
    initStep,             \* controllers App.initializeControllers has initialised so far
    \* SearchSystem
    searchIndex,          \* SearchSystem.searchIndex
    isIndexed,            \* SearchSystem.isIndexed
    isSearchOpen,         \* SearchSystem.isSearchOpen
    currentResults,       \* SearchSystem.currentResults
    selectedResultIndex,  \* SearchSystem.selectedResultIndex (0-based, as in the code)
    inputValue,           \* SearchSystem.elements.input.value
    buildsSinceLoad,      \* buildSearchIndex calls since a collection was last loaded (0, 1, 2+)
    searchQuery,          \* argument of the last direct call of SearchSystem.search
    searchReturn,         \* value that call returned
    \* Router
    currentRoute,         \* Router.currentRoute
    previousRoute,        \* Router.previousRoute
    lastClickedWall,      \* Router.lastClickedWall
    navigationHistory,    \* Router.navigationHistory
    browserHistory,       \* entries pushed with window.history.pushState, oldest first
    roomView,             \* what the renders have painted into the room
    backButtonDisabled,   \* the disabled attribute of the back button
    pendingRenders,       \* render continuations (timers, awaited inits) not yet run
    routerCall,           \* the entry point through which the router was last driven
    locationHash,         \* window.location.hash without its '#', as split('/') parts
    hashChangePending,    \* a hashchange event is queued behind the popstate of a traversal
    \* controllers with a collection browser, lightbox, sitemap, theme
    collectionView,       \* controller -> [current, featured]: its selected collections
    lightbox,             \* UniversalContentLightbox: its fields, and the item it renders
    uiTimers,             \* timers and awaited fetches of the lightbox and the search
    sitemapHidden,        \* the sitemap overlay carries the class 'hidden'
    currentTheme,         \* ThemeManager.currentTheme
    savedTheme,           \* localStorage item 'museum-theme': "null", "light" or "dark"
    prefersDark,          \* whether the system's colour scheme is dark
    toggledManually,      \* whether ThemeManager.toggleTheme has ever run
    thrown,               \* the exceptions raised so far and caught by nobody
    \* ContentLoader
    cache,                \* ContentLoader.cache, as the set of its [key, value] entries
    loadingStates,        \* ContentLoader.loadingStates
    fetching,             \* the fetches of ContentLoader that have not settled
    galleryPhotos,        \* ContentLoader.galleryPhotos: Null while undefined
    currentPhotoIndex     \* ContentLoader.currentPhotoIndex: 0 while undefined

contentVars == <<presentControllers, collections, initStep>>
searchVars  == <<searchIndex, isIndexed, isSearchOpen, currentResults,
                 selectedResultIndex, inputValue>>
callVars    == <<buildsSinceLoad, searchQuery, searchReturn>>
routerState == <<currentRoute, previousRoute, lastClickedWall, navigationHistory,
                 browserHistory, roomView, backButtonDisabled, pendingRenders>>
routerVars  == <<routerState, routerCall, locationHash>>
themeVars   == <<currentTheme, savedTheme, prefersDark, toggledManually>>
loaderVars  == <<cache, loadingStates, fetching, galleryPhotos, currentPhotoIndex>>
uiVars      == <<lightbox, uiTimers, sitemapHidden, themeVars, thrown>>
vars        == <<presentControllers, collections, initStep, searchIndex, isIndexed, isSearchOpen,
                 currentResults, selectedResultIndex, inputValue, buildsSinceLoad,
                 searchQuery, searchReturn, currentRoute, previousRoute,
                 lastClickedWall, navigationHistory, browserHistory, roomView,
                 backButtonDisabled, pendingRenders, routerCall, locationHash,
                 hashChangePending,
                 collectionView, lightbox, uiTimers, sitemapHidden, currentTheme,
                 savedTheme, prefersDark, toggledManually, thrown, cache, loadingStates,
                 fetching, galleryPhotos, currentPhotoIndex>>

-----------------------------------------------------------------------------
(* Bounds of the model *)

\* longest query typed into the search input, in characters
MaxQueryLen == 2
\* most navigateTo calls in one behaviour of RouterSpec
MaxNav == 2

\* timers and awaited fetches of the lightbox, the sitemap and the search that
\* may be pending at once
MaxTimers == 1

\* most navigateTo calls in one behaviour of AppSpec and of LightboxSpec
MaxAppNav == 1

\* most fetches of the ContentLoader that may be in flight at once
MaxFetches == 2

-----------------------------------------------------------------------------
(* JavaScript strings *)

\* a collection field that is still null (its controller has not loaded, or is absent)
Null == [isNull |-> TRUE]

\* a JavaScript object whose entries keep their insertion order
Object(entries) == [isNull |-> FALSE, entries |-> entries]

\* a JavaScript array, as opposed to null
Array(items) == [isNull |-> FALSE, items |-> items]

\* the lower-case letter of every upper-case letter
LowerOf ==
    [A |-> "a", B |-> "b", C |-> "c", D |-> "d", E |-> "e", F |-> "f", G |-> "g",
     H |-> "h", I |-> "i", J |-> "j", K |-> "k", L |-> "l", M |-> "m", N |-> "n",
     O |-> "o", P |-> "p", Q |-> "q", R |-> "r", S |-> "s", T |-> "t", U |-> "u",
     V |-> "v", W |-> "w", X |-> "x", Y |-> "y", Z |-> "z"]

\* String.prototype.toLowerCase on one character
LowerChar(c) == IF c \in DOMAIN LowerOf THEN LowerOf[c] ELSE c

\* String.prototype.toLowerCase
ToLowerCase(s) == [i \in DOMAIN s |-> LowerChar(s[i])]

\* the white space String.prototype.trim removes
IsWhiteSpace(c) == c \in {" ", "\t", "\n"}

RECURSIVE TrimStart(_)
TrimStart(s) ==
    IF s # <<>> /\ IsWhiteSpace(Head(s)) THEN TrimStart(Tail(s)) ELSE s

RECURSIVE TrimEnd(_)
TrimEnd(s) ==
    IF s # <<>> /\ IsWhiteSpace(s[Len(s)])
    THEN TrimEnd(SubSeq(s, 1, Len(s) - 1))
    ELSE s

\* String.prototype.trim
Trim(s) == TrimEnd(TrimStart(s))

\* String.prototype.includes: needle occurs in hay as a contiguous substring
Includes(hay, needle) ==
    \E off \in 0..(Len(hay) - Len(needle)) :
        \A i \in 1..Len(needle) : hay[off + i] = needle[i]

\* Math.min, Math.max
Min(a, b) == IF a < b THEN a ELSE b
Max(a, b) == IF a > b THEN a ELSE b

\* x || dflt for an optional string field of a content record
FieldOr(rec, f, dflt) ==
    IF f \in DOMAIN rec /\ rec[f] # <<>> THEN rec[f] ELSE dflt

\* x || [] for an optional array field of a content record
ArrayOr(rec, f) == IF f \in DOMAIN rec THEN rec[f] ELSE <<>>

-----------------------------------------------------------------------------
(* Content: the records the controllers fetch.  Searched text and ids are  *)
(* character sequences; a collection id is one path part of a route.       *)

\* a photo of photography.json
NightWalk ==
    [id |-> <<"p", "1">>, title |-> <<"N", "i", "g", "h", "t", " ", "W", "a", "l", "k">>,
     description |-> <<"a", " ", "s", "t", "r", "e", "e", "t", " ", "p", "h", "o", "t", "o">>,
     tags |-> <<<<"u", "r", "b", "a", "n">>, <<"n", "i", "g", "h", "t">>>>,
     collection |-> "street"]

\* a photo with a location and neither description nor tags
Dunes ==
    [id |-> <<"p", "2">>, title |-> <<"D", "u", "n", "e", "s">>,
     location |-> <<"N", "a", "m", "i", "b">>, collection |-> "travel"]

\* an article of writings.json, keyed by its filename
InnNotes ==
    [filename |-> <<"i", "n", "n", ".", "m", "d">>,
     title |-> <<"I", "n", "n", " ", "N", "o", "t", "e", "s">>, excerpt |-> <<"n">>,
     tags |-> <<<<"I", "n", "n">>>>]

\* an article without a filename, keyed by its title
OnN ==
    [title |-> <<"O", "n", " ", "N">>]

\* a track of music.json
Nocturne ==
    [id |-> <<"t", "1">>, title |-> <<"N", "o", "c", "t", "u", "r", "n", "e">>,
     description |-> <<"n", "i", "g", "h", "t", " ", "m", "u", "s", "i", "c">>,
     genres |-> <<<<"a", "m", "b", "i", "e", "n", "t">>>>]

\* a project of projects.json
Engine ==
    [id |-> <<"j", "1">>, title |-> <<"E", "n", "g", "i", "n", "e">>,
     technologies |-> <<<<"n", "n">>, <<"N", "i", "x">>>>]

\* an article of curated-writings.json
Dune ==
    [id |-> <<"w", "1">>, title |-> <<"D", "u", "n", "e">>, author |-> <<"N", "i", "n">>,
     collection |-> "books"]

\* an item of curated-cinema.json
Nine ==
    [id |-> <<"c", "1">>, title |-> <<"N", "i", "n", "e">>, excerpt |-> <<>>,
     director |-> <<"N", "o", "l", "a", "n">>, genres |-> <<<<"n", "o", "i", "r">>>>,
     collection |-> "films"]

\* an item of curated-music.json; its artist is indexed but never scored
Blue ==
    [id |-> <<"m", "1">>, title |-> <<"B", "l", "u", "e">>, artist |-> <<"N", "i", "n", "a">>,
     genres |-> <<<<"j", "a", "z", "z">>>>, collection |-> "albums"]

\* an item of curated-misc.json
Pod ==
    [id |-> <<"x", "1">>, title |-> <<"P", "o", "d">>, creator |-> <<"A", "n", "n", " ", "N">>,
     tags |-> <<<<"n", " ", "n">>>>, collection |-> "podcasts"]

\* the contentType labels buildSearchIndex attaches
LabelPersonalPhotography ==
    <<"P", "e", "r", "s", "o", "n", "a", "l", " ", "P", "h", "o", "t", "o", "g", "r", "a", "p", "h", "y">>

LabelPersonalWritings ==
    <<"P", "e", "r", "s", "o", "n", "a", "l", " ", "W", "r", "i", "t", "i", "n", "g", "s">>

LabelPersonalMusic ==
    <<"P", "e", "r", "s", "o", "n", "a", "l", " ", "M", "u", "s", "i", "c">>

LabelPersonalProjects ==
    <<"P", "e", "r", "s", "o", "n", "a", "l", " ", "P", "r", "o", "j", "e", "c", "t", "s">>

LabelCuratedWritings ==
    <<"C", "u", "r", "a", "t", "e", "d", " ", "W", "r", "i", "t", "i", "n", "g", "s">>

LabelCuratedCinema ==
    <<"C", "u", "r", "a", "t", "e", "d", " ", "C", "i", "n", "e", "m", "a">>

LabelCuratedMusic ==
    <<"C", "u", "r", "a", "t", "e", "d", " ", "M", "u", "s", "i", "c">>

LabelCuratedContent ==
    <<"C", "u", "r", "a", "t", "e", "d", " ", "C", "o", "n", "t", "e", "n", "t">>

-----------------------------------------------------------------------------
(* Content controllers *)

Controllers ==
    <<"PhotographyController", "WritingsController", "MusicController",
      "ProjectsController", "CuratedWritingsController", "CuratedCinemaController",
      "CuratedMusicController", "CuratedMiscController">>

ControllerNames == {Controllers[i] : i \in DOMAIN Controllers}

\* every controller script of the site, AboutController included
AllControllers == ControllerNames \cup {"AboutController"}

\* the array each controller's JSON file holds (data.photos, data.articles, ...)
JsonData(c) ==
    CASE c = "PhotographyController"     -> <<NightWalk, Dunes>>
      [] c = "WritingsController"        -> <<InnNotes, OnN>>
      [] c = "MusicController"           -> <<Nocturne>>
      [] c = "ProjectsController"        -> <<Engine>>
      [] c = "CuratedWritingsController" -> <<Dune>>
      [] c = "CuratedCinemaController"   -> <<Nine>>
      [] c = "CuratedMusicController"    -> <<Blue>>
      [] c = "CuratedMiscController"     -> <<Pod>>

\* the key a controller files a record under: article.filename || article.title
\* for WritingsController, record.id for every other controller
KeyOf(c, rec) ==
    IF c = "WritingsController" THEN FieldOr(rec, "filename", rec.title) ELSE rec.id

\* obj[k] = v on an object whose keys keep their insertion order
Put(obj, k, v) ==
    IF \E i \in DOMAIN obj : obj[i].key = k
    THEN [i \in DOMAIN obj |-> IF obj[i].key = k THEN [key |-> k, value |-> v] ELSE obj[i]]
    ELSE Append(obj, [key |-> k, value |-> v])

\* this.<collection> = {}; array.forEach(r => this.<collection>[key(r)] = r)
RECURSIVE KeyedBy(_, _, _)
KeyedBy(c, arr, obj) ==
    IF arr = <<>> THEN obj
    ELSE KeyedBy(c, Tail(arr), Put(obj, KeyOf(c, Head(arr)), Head(arr)))

\* Object.values
ObjectValues(obj) == [i \in DOMAIN obj.entries |-> obj.entries[i].value]

\* a load method whose catch branch leaves the collection as declared
LoadDataKeepingNull(c, fetchOk) ==
    IF fetchOk THEN Object(KeyedBy(c, JsonData(c), <<>>)) ELSE Null

\* the collection a controller holds once its load method has run: the fetched
\* array keyed by id, or the empty object set in the catch branch
LoadData(c, fetchOk) ==
    IF fetchOk THEN Object(KeyedBy(c, JsonData(c), <<>>)) ELSE Object(<<>>)

\* a second record of the same JSON file carrying the id (or filename) of rec
DuplicateOf(rec) == [rec EXCEPT !.title = <<"D", "u", "p">>]

\* other shapes the JSON file of a controller may have: its array holding two
\* records with one id, or (photography.json) the records held as an object
\* under keys of their own
JsonForms(c) ==
    CASE c = "PhotographyController" -> {"arrayWithDuplicate", "keyedObject"}
      [] c = "WritingsController"    -> {"arrayWithDuplicate"}
      [] OTHER                       -> {}

\* data.photos in keyed-object form: two keys, both records with the id p1
KeyedJsonData(c) ==
    <<[key |-> <<"a">>, value |-> JsonData(c)[1]],
      [key |-> <<"b">>, value |-> DuplicateOf(JsonData(c)[1])]>>

\* the collection a load method leaves for a JSON file of that form: an
\* array is keyed record by record, an object is taken as it is
LoadForm(c, form) ==
    IF form = "keyedObject" THEN Object(KeyedJsonData(c))
    ELSE Object(KeyedBy(c, JsonData(c) \o <<DuplicateOf(JsonData(c)[1])>>, <<>>))

\* the controllers that show one collection at a time
BrowsingControllers == {"PhotographyController", "MusicController"}

\* the keys of data.collections in their JSON files, none flagged as featured
CollectionKeys(c) ==
    IF c = "PhotographyController" THEN <<"street", "travel">> ELSE <<"ambient">>

NoView == [current |-> "null", featured |-> "null"]

\* identifyFeaturedCollection after a load: without a flagged collection the
\* first key is taken, unless a featured collection is already set
IdentifyFeatured(c, view, fetchOk) ==
    IF fetchOk /\ view.featured = "null"
    THEN [view EXCEPT !.featured = Head(CollectionKeys(c))]
    ELSE view

\* render() of a browsing controller: with an empty collection the empty
\* state is shown, otherwise currentCollection = featuredCollection
RenderView(view, collection) ==
    IF collection.isNull \/ collection.entries = <<>> THEN view
    ELSE [view EXCEPT !.current = view.featured]

\* the view fields of every controller after its init()
InitViews(views, c, fetchOk) ==
    IF c \in BrowsingControllers
    THEN [views EXCEPT ![c] = IdentifyFeatured(c, views[c], fetchOk)]
    ELSE views

\* <Controller>.init(): awaits the load method, which always sets the collection
ControllerInit(c, fetchOk) ==
    /\ collections' = [collections EXCEPT ![c] = LoadData(c, fetchOk)]
    /\ collectionView' = InitViews(collectionView, c, fetchOk)
    /\ buildsSinceLoad' = 0

\* <Controller>.init() on a JSON file of the given form
ControllerInitFrom(c, form) ==
    /\ collections' = [collections EXCEPT ![c] = LoadForm(c, form)]
    /\ collectionView' = InitViews(collectionView, c, TRUE)
    /\ buildsSinceLoad' = 0

\* every controller initialised by App.initializeControllers, all fetches answered
AllLoaded == [c \in ControllerNames |-> LoadData(c, TRUE)]

\* before App.initializeControllers: every collection field is null
NoneLoaded == [c \in ControllerNames |-> Null]

-----------------------------------------------------------------------------
(* SearchSystem.buildSearchIndex *)

\* a route path as the sequence of its '/'-separated parts
Route1(a) == <<"", a>>
Route2(a, b) == <<"", a, b>>
Route3(a, b, c) == <<"", a, b, c>>
Route4(a, b, c, d) == <<"", a, b, c, d>>

\* the entry buildSearchIndex pushes for one record of controller c
IndexEntry(c, rec) ==
    CASE c = "PhotographyController" ->
            [type |-> "photo", id |-> rec.id, title |-> rec.title,
             description |-> FieldOr(rec, "description", <<>>),
             location |-> FieldOr(rec, "location", <<>>),
             tags |-> ArrayOr(rec, "tags"), contentType |-> LabelPersonalPhotography,
             route |-> Route2("photography", rec.collection), data |-> rec]
      [] c = "WritingsController" ->
            [type |-> "writing", id |-> FieldOr(rec, "filename", rec.title),
             title |-> rec.title, description |-> FieldOr(rec, "excerpt", <<>>),
             tags |-> ArrayOr(rec, "tags"), contentType |-> LabelPersonalWritings,
             route |-> Route3("works", "personal", "writings"), data |-> rec]
      [] c = "MusicController" ->
            [type |-> "music", id |-> rec.id, title |-> rec.title,
             description |-> FieldOr(rec, "description", <<>>),
             tags |-> ArrayOr(rec, "genres"), contentType |-> LabelPersonalMusic,
             route |-> Route3("works", "personal", "music"), data |-> rec]
      [] c = "ProjectsController" ->
            [type |-> "project", id |-> rec.id, title |-> rec.title,
             description |-> FieldOr(rec, "description", <<>>),
             tags |-> ArrayOr(rec, "technologies"), contentType |-> LabelPersonalProjects,
             route |-> Route3("works", "personal", "projects"), data |-> rec]
      [] c = "CuratedWritingsController" ->
            [type |-> "curated_writing", id |-> rec.id, title |-> rec.title,
             description |-> FieldOr(rec, "excerpt", <<>>),
             author |-> FieldOr(rec, "author", <<>>),
             tags |-> ArrayOr(rec, "tags"), contentType |-> LabelCuratedWritings,
             route |-> Route4("works", "curated", "writings", rec.collection), data |-> rec]
      [] c = "CuratedCinemaController" ->
            [type |-> "curated_cinema", id |-> rec.id, title |-> rec.title,
             description |-> FieldOr(rec, "excerpt", <<>>),
             director |-> FieldOr(rec, "director", <<>>),
             tags |-> ArrayOr(rec, "genres"), contentType |-> LabelCuratedCinema,
             route |-> Route4("works", "curated", "cinema", rec.collection), data |-> rec]
      [] c = "CuratedMusicController" ->
            [type |-> "curated_music", id |-> rec.id, title |-> rec.title,
             description |-> FieldOr(rec, "excerpt", <<>>),
             artist |-> FieldOr(rec, "artist", <<>>),
             tags |-> ArrayOr(rec, "genres"), contentType |-> LabelCuratedMusic,
             route |-> Route4("works", "curated", "music", rec.collection), data |-> rec]
      [] c = "CuratedMiscController" ->
            [type |-> "curated_misc", id |-> rec.id, title |-> rec.title,
             description |-> FieldOr(rec, "excerpt", <<>>),
             creator |-> FieldOr(rec, "creator", <<>>),
             tags |-> ArrayOr(rec, "tags"), contentType |-> LabelCuratedContent,
             route |-> Route4("works", "curated", "misc", rec.collection), data |-> rec]

\* one "if (window.X && window.X.<collection>) Object.values(...).forEach(push)" block
PushCollection(index, c, present, cols) ==
    IF c \notin present \/ cols[c].isNull THEN index
    ELSE index \o [i \in DOMAIN ObjectValues(cols[c]) |->
                      IndexEntry(c, ObjectValues(cols[c])[i])]

RECURSIVE PushCollections(_, _, _, _)
PushCollections(index, k, present, cols) ==
    IF k > Len(Controllers) THEN index
    ELSE PushCollections(PushCollection(index, Controllers[k], present, cols),
                         k + 1, present, cols)

\* a build that pushes onto the index it found
BuiltIndexAppending(old, present, cols) == PushCollections(old, 1, present, cols)

\* the index buildSearchIndex leaves behind, given the index it found: it starts
\* from an empty array and visits the eight controllers in their fixed order
BuiltIndex(old, present, cols) == PushCollections(<<>>, 1, present, cols)

buildSearchIndex ==
    /\ searchIndex' = BuiltIndex(searchIndex, presentControllers, collections)
    /\ isIndexed' = TRUE
    /\ buildsSinceLoad' = Min(buildsSinceLoad + 1, 2)

-----------------------------------------------------------------------------
(* SearchSystem.search *)

\* item.f && item.f.toLowerCase().includes(q): an absent or empty field never matches
OptionalFieldMatches(item, f, q) ==
    /\ f \in DOMAIN item
    /\ item[f] # <<>>
    /\ Includes(ToLowerCase(item[f]), q)

\* tags that count once however many of them match
TagScoreOnce(tags, q) ==
    IF \E i \in DOMAIN tags : Includes(ToLowerCase(tags[i]), q) THEN 8 ELSE 0

\* item.tags.forEach(tag => { if (tag.toLowerCase().includes(q)) score += 8 })
RECURSIVE TagScore(_, _)
TagScore(tags, q) ==
    IF tags = <<>> THEN 0
    ELSE (IF Includes(ToLowerCase(Head(tags)), q) THEN 8 ELSE 0) + TagScore(Tail(tags), q)

\* the score the forEach body of search accumulates for one index entry
Score(item, q) ==
    LET s1 == IF Includes(ToLowerCase(item.title), q) THEN 10 ELSE 0
        s2 == s1 + (IF Includes(ToLowerCase(item.description), q) THEN 5 ELSE 0)
        s3 == s2 + (IF OptionalFieldMatches(item, "author", q) THEN 7 ELSE 0)
        s4 == s3 + (IF OptionalFieldMatches(item, "director", q) THEN 7 ELSE 0)
        s5 == s4 + (IF OptionalFieldMatches(item, "creator", q) THEN 7 ELSE 0)
        s6 == s5 + (IF OptionalFieldMatches(item, "location", q) THEN 6 ELSE 0)
        s7 == s6 + TagScore(item.tags, q)
        s8 == s7 + (IF Includes(ToLowerCase(item.contentType), q) THEN 3 ELSE 0)
    IN  s8

\* { ...item, score }
WithScore(item, score) ==
    [f \in DOMAIN item \cup {"score"} |-> IF f = "score" THEN score ELSE item[f]]

\* the results array before it is sorted: entries with score > 0, in index order
RECURSIVE Matches(_, _)
Matches(index, q) ==
    IF index = <<>> THEN <<>>
    ELSE LET score == Score(Head(index), q)
         IN  (IF score > 0 THEN <<WithScore(Head(index), score)>> ELSE <<>>)
                 \o Matches(Tail(index), q)

\* a sort that is not stable: x goes in front of the elements of equal score
RECURSIVE InsertBeforeTies(_, _)
InsertBeforeTies(sorted, x) ==
    IF sorted = <<>> THEN <<x>>
    ELSE IF Head(sorted).score > x.score
         THEN <<Head(sorted)>> \o InsertBeforeTies(Tail(sorted), x)
         ELSE <<x>> \o sorted

\* x goes behind every element the comparator does not order after it
RECURSIVE InsertByScore(_, _)
InsertByScore(sorted, x) ==
    IF sorted = <<>> THEN <<x>>
    ELSE IF Head(sorted).score >= x.score
         THEN <<Head(sorted)>> \o InsertByScore(Tail(sorted), x)
         ELSE <<x>> \o sorted

RECURSIVE SortFrom(_, _)
SortFrom(results, sorted) ==
    IF results = <<>> THEN sorted
    ELSE SortFrom(Tail(results), InsertByScore(sorted, Head(results)))

\* results.sort((a, b) => b.score - a.score): Array.prototype.sort is stable
SortByScore(results) == SortFrom(results, <<>>)

\* a search that tests the query for emptiness before trimming it only
searchUntrimmedGuard(index, query) ==
    IF query = <<>> THEN <<>>
    ELSE SortByScore(Matches(index, Trim(ToLowerCase(query))))

\* SearchSystem.search(query) over a given index
search(index, query) ==
    IF query = <<>> \/ Len(Trim(query)) = 0 THEN <<>>
    ELSE SortByScore(Matches(index, Trim(ToLowerCase(query))))

-----------------------------------------------------------------------------
(* The search surface *)

\* the characters typed into the search input: a capital, which search
\* lower-cases, and the blank, which it trims
QueryChars == {"N", " "}

RECURSIVE StringsUpTo(_)
StringsUpTo(n) ==
    IF n = 0 THEN {<<>>}
    ELSE LET shorter == StringsUpTo(n - 1)
         IN  shorter \cup {Append(s, c) : s \in shorter, c \in QueryChars}

\* longer queries: a whole word, one with capitals and surrounding blanks, and
\* one with a blank inside
QueryNight == <<"n", "i", "g", "h", "t">>
QueryNightPadded == <<" ", "N", "I", "G", "H", "T", " ">>
QueryNSpaceN == <<"N", " ", "n">>

Queries == StringsUpTo(MaxQueryLen) \cup {QueryNight, QueryNightPadded, QueryNSpaceN}

\* the input listener: handleSearch(e.target.value)
handleSearch(query) ==
    /\ inputValue' = query
    /\ IF query = <<>> \/ Len(Trim(query)) = 0
       THEN /\ currentResults' = <<>>
            /\ UNCHANGED selectedResultIndex
       ELSE /\ currentResults' = search(searchIndex, query)
            /\ selectedResultIndex' = 0
    /\ UNCHANGED <<searchIndex, isIndexed, isSearchOpen>>

\* SearchSystem.openSearch
openSearch ==
    /\ isSearchOpen' = TRUE
    /\ inputValue' = <<>>
    /\ currentResults' = <<>>
    /\ selectedResultIndex' = 0
    /\ UNCHANGED <<searchIndex, isIndexed>>

\* SearchSystem.closeSearch
closeSearch ==
    /\ isSearchOpen' = FALSE
    /\ UNCHANGED <<searchIndex, isIndexed, currentResults, selectedResultIndex, inputValue>>

\* an ArrowDown that does not stop at the last result
ArrowDownUnclamped(selected, len) == selected + 1

\* the index ArrowDown moves the selection to
ArrowDownIndex(selected, len) == Min(selected + 1, len - 1)

\* the index ArrowUp moves the selection to
ArrowUpIndex(selected) == Max(selected - 1, 0)

\* keys pressed while the search input has the focus
NavigationKeys == {"ArrowDown", "ArrowUp", "Escape", "Tab"}

\* the keydown listener of the search input: handleKeyboardNavigation(event);
\* its Enter case is selectResult, which KeyDown composes with the router
handleKeyboardNavigation(key) ==
    IF Len(currentResults) = 0
    THEN UNCHANGED searchVars
    ELSE CASE key = "ArrowDown" ->
                /\ selectedResultIndex' =
                       ArrowDownIndex(selectedResultIndex, Len(currentResults))
                /\ UNCHANGED <<searchIndex, isIndexed, isSearchOpen, currentResults,
                               inputValue>>
           [] key = "ArrowUp" ->
                /\ selectedResultIndex' = ArrowUpIndex(selectedResultIndex)
                /\ UNCHANGED <<searchIndex, isIndexed, isSearchOpen, currentResults,
                               inputValue>>
           [] key = "Escape" -> closeSearch
           [] OTHER -> UNCHANGED searchVars

-----------------------------------------------------------------------------
(* Router: the static route table *)

Home == <<"">>
About == Route1("about")
Works == Route1("works")
WorksPersonal == Route2("works", "personal")
WorksCurated == Route2("works", "curated")
PersonalPhotography == Route3("works", "personal", "photography")
PersonalWritings == Route3("works", "personal", "writings")
PersonalMusic == Route3("works", "personal", "music")
PersonalProjects == Route3("works", "personal", "projects")
CuratedWritings == Route3("works", "curated", "writings")
CuratedCinema == Route3("works", "curated", "cinema")
CuratedMusic == Route3("works", "curated", "music")
CuratedMisc == Route3("works", "curated", "misc")

\* the keys of Router.routes
\* a route table that declares no '/about' record
RouteKeysWithoutAbout ==
    {Home, Works, WorksPersonal, WorksCurated, PersonalPhotography,
     PersonalWritings, PersonalMusic, PersonalProjects, CuratedWritings,
     CuratedCinema, CuratedMusic, CuratedMisc}

RouteKeys ==
    {Home, About, Works, WorksPersonal, WorksCurated, PersonalPhotography,
     PersonalWritings, PersonalMusic, PersonalProjects, CuratedWritings,
     CuratedCinema, CuratedMusic, CuratedMisc}

\* wall configurations
NavigationWall(target) == [type |-> "navigation", route |-> target]
PlainWall(type) == [type |-> type, route |-> Home]

ThreeWalls(back, left, right) ==
    [layout |-> "three-walls", hasBackWall |-> TRUE, backWall |-> back,
     walls |-> <<[wall |-> "back", config |-> back], [wall |-> "left", config |-> left],
                 [wall |-> "right", config |-> right]>>]

FourWalls(leftmost, leftmiddle, rightmiddle, rightmost) ==
    [layout |-> "four-walls", hasBackWall |-> FALSE, backWall |-> PlainWall("empty"),
     walls |-> <<[wall |-> "leftmost", config |-> leftmost],
                 [wall |-> "leftmiddle", config |-> leftmiddle],
                 [wall |-> "rightmiddle", config |-> rightmiddle],
                 [wall |-> "rightmost", config |-> rightmost]>>]

LeafRoom == ThreeWalls(PlainWall("placeholder"), PlainWall("empty"), PlainWall("empty"))

\* a value found under a key that the route table does not define itself:
\* it has no layout, no backWall and no walls
InheritedValue ==
    [layout |-> "undefined", hasBackWall |-> FALSE, backWall |-> PlainWall("empty"),
     walls |-> <<>>]

\* a route table whose entrance has a leaf room behind its left wall
RoutesWithSideLeaf(route) ==
    CASE route = Home ->
            ThreeWalls(PlainWall("photo-space"), NavigationWall(PersonalMusic),
                       NavigationWall(About))
      [] route = Works ->
            ThreeWalls(PlainWall("section-title"), NavigationWall(WorksPersonal),
                       NavigationWall(WorksCurated))
      [] route = WorksPersonal ->
            FourWalls(NavigationWall(PersonalPhotography), NavigationWall(PersonalWritings),
                      NavigationWall(PersonalMusic), NavigationWall(PersonalProjects))
      [] route = WorksCurated ->
            FourWalls(NavigationWall(CuratedWritings), NavigationWall(CuratedCinema),
                      NavigationWall(CuratedMusic), NavigationWall(CuratedMisc))
      [] OTHER -> LeafRoom

\* Router.routes, the configuration declared for each key
Routes(route) ==
    CASE route = Home ->
            ThreeWalls(PlainWall("photo-space"), NavigationWall(Works), NavigationWall(About))
      [] route = Works ->
            ThreeWalls(PlainWall("section-title"), NavigationWall(WorksPersonal),
                       NavigationWall(WorksCurated))
      [] route = WorksPersonal ->
            FourWalls(NavigationWall(PersonalPhotography), NavigationWall(PersonalWritings),
                      NavigationWall(PersonalMusic), NavigationWall(PersonalProjects))
      [] route = WorksCurated ->
            FourWalls(NavigationWall(CuratedWritings), NavigationWall(CuratedCinema),
                      NavigationWall(CuratedMusic), NavigationWall(CuratedMisc))
      [] OTHER -> LeafRoom

\* a property name every object literal inherits from Object.prototype:
\* this.routes['constructor'] is a function, not undefined
ObjectPrototypeKeys == {<<"constructor">>}

\* whether this.routes[route] is truthy
HasRouteConfig(route) == route \in RouteKeys \/ route \in ObjectPrototypeKeys

\* this.routes[route], where it is truthy
RouteConfig(route) == IF route \in RouteKeys THEN Routes(route) ELSE InheritedValue

-----------------------------------------------------------------------------
(* Router: view classes and the parent hierarchy *)

\* Router.isForwardNavigation: '' is falsy, and depth is route.split('/').length
isForwardNavigation(prev, cur) ==
    IF prev = Home \/ cur = Home THEN FALSE
    ELSE Len(cur) > Len(prev)

\* Router.isLeafRoute
isLeafRoute(cur) ==
    /\ HasRouteConfig(cur)
    /\ RouteConfig(cur).hasBackWall
    /\ RouteConfig(cur).backWall.type \notin {"empty", "section-title", "photo-space"}

\* a getViewClass that does not set the About section apart
getViewClassWithAbout(prev, cur, wall) ==
    IF isForwardNavigation(prev, cur) THEN "move-forward"
    ELSE IF wall = "left" /\ isLeafRoute(cur) THEN "view-left"
    ELSE IF wall = "right" /\ isLeafRoute(cur) THEN "view-right"
    ELSE ""

\* Router.getViewClass
getViewClass(prev, cur, wall) ==
    IF isForwardNavigation(prev, cur) THEN "move-forward"
    ELSE IF cur # About /\ wall = "left" /\ isLeafRoute(cur) THEN "view-left"
    ELSE IF cur # About /\ wall = "right" /\ isLeafRoute(cur) THEN "view-right"
    ELSE ""

\* a hierarchy in which every room leads straight back to the entrance
getParentRouteFlat(route) == Home

\* hierarchy[name] for a name inherited from Object.prototype is a function; used
\* as a route it is a value that is no key of any table
FunctionAsRoute == <<"function Object() { [native code] }">>

\* Router.getParentRoute: the hierarchy table, home for a route it does not list
getParentRoute(route) ==
    CASE route = Home -> Home
      [] route \in ObjectPrototypeKeys -> FunctionAsRoute
      [] route \in {About, Works} -> Home
      [] route \in {WorksPersonal, WorksCurated} -> Works
      [] route \in {PersonalPhotography, PersonalWritings, PersonalMusic,
                    PersonalProjects} -> WorksPersonal
      [] route \in {CuratedWritings, CuratedCinema, CuratedMusic, CuratedMisc} ->
            WorksCurated
      [] OTHER -> Home

-----------------------------------------------------------------------------
(* Router: rendering *)

NoController == "none"
NoCollection == "none"

\* the room of the static page, before any render
BlankRoom ==
    [kind |-> "blank", route |-> Home, controller |-> NoController,
     collectionId |-> NoCollection, notFound |-> FALSE, header |-> FALSE,
     buttons |-> {}, class |-> ""]

\* route.startsWith(prefix + '/'), prefix given as its parts
StartsWithSlash(route, prefix) ==
    /\ Len(route) > Len(prefix)
    /\ SubSeq(route, 1, Len(prefix)) = prefix

\* Router.handleControllerRoute up to its first return: the controller that takes
\* the route, the collection id handed to its render, and whether an init() is
\* awaited first; handled is FALSE when the function returns false
HandleControllerRoute(route, present) ==
    LET Take(c, coll, awaits) ==
            [handled |-> TRUE, controller |-> c, collectionId |-> coll, awaits |-> awaits]
    IN  CASE route = About /\ "AboutController" \in present ->
                Take("AboutController", NoCollection, TRUE)
          [] route = PersonalPhotography /\ "PhotographyController" \in present ->
                Take("PhotographyController", NoCollection, TRUE)
          [] StartsWithSlash(route, Route1("photography"))
               /\ "PhotographyController" \in present ->
                Take("PhotographyController", route[3], FALSE)
          [] route = PersonalWritings /\ "WritingsController" \in present ->
                Take("WritingsController", NoCollection, FALSE)
          [] route = PersonalMusic /\ "MusicController" \in present ->
                Take("MusicController", NoCollection, FALSE)
          [] route = PersonalProjects /\ "ProjectsController" \in present ->
                Take("ProjectsController", NoCollection, FALSE)
          [] route = CuratedWritings /\ "CuratedWritingsController" \in present ->
                Take("CuratedWritingsController", NoCollection, FALSE)
          [] StartsWithSlash(route, CuratedWritings)
               /\ "CuratedWritingsController" \in present ->
                Take("CuratedWritingsController", route[5], FALSE)
          [] route = CuratedCinema /\ "CuratedCinemaController" \in present ->
                Take("CuratedCinemaController", NoCollection, FALSE)
          [] StartsWithSlash(route, CuratedCinema)
               /\ "CuratedCinemaController" \in present ->
                Take("CuratedCinemaController", route[5], FALSE)
          [] route = CuratedMusic /\ "CuratedMusicController" \in present ->
                Take("CuratedMusicController", NoCollection, FALSE)
          [] StartsWithSlash(route, CuratedMusic)
               /\ "CuratedMusicController" \in present ->
                Take("CuratedMusicController", route[5], FALSE)
          [] route = CuratedMisc /\ "CuratedMiscController" \in present ->
                Take("CuratedMiscController", NoCollection, FALSE)
          [] StartsWithSlash(route, CuratedMisc)
               /\ "CuratedMiscController" \in present ->
                Take("CuratedMiscController", route[5], FALSE)
          [] OTHER ->
                [handled |-> FALSE, controller |-> NoController,
                 collectionId |-> NoCollection, awaits |-> FALSE]

\* the class renderNavigationWall reads off the wall element: left-wall, right-wall
\* and front-wall are recognised, every other wall counts as 'back'
WallType(wall) == IF wall \in {"left", "right", "front"} THEN wall ELSE "back"

\* the wall buttons renderWallsForRoute leaves in the room for a configuration
ButtonsOf(config) ==
    {[wall |-> config.walls[i].wall, route |-> config.walls[i].config.route] :
        i \in {j \in DOMAIN config.walls : config.walls[j].config.type = "navigation"}}

\* Router.show404: the back wall's frame is overwritten, nothing else is touched
show404(room) ==
    [room EXCEPT !.notFound = TRUE,
                 !.buttons = {b \in room.buttons : b.wall # "back"}]

\* Router.clearAllWalls, followed by the reset of the room's view classes
ClearedRoom(route, class) ==
    [kind |-> "cleared", route |-> route, controller |-> NoController,
     collectionId |-> NoCollection, notFound |-> FALSE, header |-> FALSE,
     buttons |-> {}, class |-> class]

\* what a controller's render(collectionId) leaves in the room, the walls
\* having been cleared before
ControllerRoom(route, controller, collectionId) ==
    [kind |-> "controller", route |-> route, controller |-> controller,
     collectionId |-> collectionId, notFound |-> FALSE, header |-> FALSE,
     buttons |-> {}, class |-> ""]

\* renderWallsForRoute(routeConfig) in the second stage of a render:
\* updateMainPageHeader reads this.currentRoute when the timer fires
StaticRoom(route, cur, class) ==
    [kind |-> "static", route |-> route, controller |-> NoController,
     collectionId |-> NoCollection, notFound |-> FALSE, header |-> (cur = Home),
     buttons |-> ButtonsOf(RouteConfig(route)),
     class |-> IF class = "move-forward" THEN "new-room-enter" ELSE class]

\* a continuation of renderRoute that runs in a later turn of the event loop
Pending(kind, route, delay) == [kind |-> kind, route |-> route, delay |-> delay]

\* the delays of the timers of renderRoute, in milliseconds: the walls of a
\* forward move and of a standard navigation, and the clean-up after each
ForwardDelay == 100
StandardDelay == 25
ForwardCleanupDelay == 150
StandardCleanupDelay == 100

\* timers fire in the order of their deadlines: the k-th pending continuation
\* was started no earlier than those before it, so its timer can fire
\* first only with a shorter delay; an awaited fetch settles at any time
MayFire(pending, k) ==
    \/ pending[k].kind = "init"
    \/ \A j \in 1..(k - 1) :
          pending[j].kind = "init" \/ pending[k].delay < pending[j].delay

\* Router.renderRoute(route), up to the first timer or awaited fetch; prev, cur
\* and wall are the router's fields as navigateTo has just set them
renderRoute(route, prev, cur, wall) ==
    IF ~HasRouteConfig(route)
    THEN /\ roomView' = show404(roomView)
         /\ UNCHANGED <<backButtonDisabled, pendingRenders, collectionView>>
    ELSE LET taken == HandleControllerRoute(route, presentControllers)
         IN  IF taken.handled /\ taken.awaits
             THEN /\ roomView' = ClearedRoom(route, roomView.class)
                  /\ pendingRenders' = Append(pendingRenders, Pending("init", route, 0))
                  /\ UNCHANGED <<backButtonDisabled, collectionView>>
             ELSE IF taken.handled
             THEN /\ roomView' = ControllerRoom(route, taken.controller, taken.collectionId)
                  /\ backButtonDisabled' = (cur = Home)
                  /\ collectionView' =
                         IF taken.controller \in BrowsingControllers
                         THEN [collectionView EXCEPT ![taken.controller] =
                                  RenderView(@, collections[taken.controller])]
                         ELSE collectionView
                  /\ UNCHANGED pendingRenders
             ELSE /\ roomView' = ClearedRoom(route, getViewClass(prev, cur, wall))
                  /\ pendingRenders' =
                         Append(pendingRenders,
                                Pending("walls", route,
                                        IF getViewClass(prev, cur, wall) = "move-forward"
                                        THEN ForwardDelay ELSE StandardDelay))
                  /\ UNCHANGED <<backButtonDisabled, collectionView>>

\* a navigateTo that pushes a browser-history entry whatever addToHistory says
navigateToAlwaysPushing(route, addToHistory, clickedWall) ==
    /\ previousRoute' = currentRoute
    /\ currentRoute' = route
    /\ lastClickedWall' = clickedWall
    /\ navigationHistory' = Append(navigationHistory, route)
    /\ browserHistory' = Append(browserHistory, route)
    /\ locationHash' = route
    /\ renderRoute(route, currentRoute, route, clickedWall)

\* Router.navigateTo(route, addToHistory, clickedWall); pushState sets the
\* fragment, and without it the URL is the caller's: the listeners of
\* hashchange and popstate run when the browser has changed it
navigateTo(route, addToHistory, clickedWall) ==
    /\ previousRoute' = currentRoute
    /\ currentRoute' = route
    /\ lastClickedWall' = clickedWall
    /\ navigationHistory' = Append(navigationHistory, route)
    /\ browserHistory' =
           IF addToHistory THEN Append(browserHistory, route) ELSE browserHistory
    /\ addToHistory => locationHash' = route
    /\ renderRoute(route, currentRoute, route, clickedWall)

\* Router.goBack
goBack == navigateTo(getParentRoute(currentRoute), TRUE, "null")

\* a handleRoute that navigates whatever the current route is
handleRouteAlways(hash) == navigateTo(hash, FALSE, "null")

\* Router.handleRoute with the fragment of the URL being hash
handleRoute(hash) ==
    IF hash # currentRoute \/ currentRoute = Home
    THEN navigateTo(hash, FALSE, "null")
    ELSE UNCHANGED <<routerState, collectionView>>

\* an entry of the browser's session history: pushState stores {route} with
\* the URL '#' + route, an entry made by a fragment navigation or by the load
\* of the page has no state
HistoryEntry(fragment, pushed) == [fragment |-> fragment, pushed |-> pushed]

\* the popstate listener of Router.init: event.state && event.state.route is
\* falsy without a state and for the state of the home route
popstate(entry) ==
    IF entry.pushed /\ entry.fragment # Home
    THEN navigateTo(entry.fragment, FALSE, "null") /\ routerCall' = "popstate"
    ELSE UNCHANGED <<routerState, collectionView>> /\ routerCall' = "popstateIgnored"

\* s without its k-th element
RemoveAt(s, k) == SubSeq(s, 1, k - 1) \o SubSeq(s, k + 1, Len(s))

\* a render timer that carries a generation token: a render overtaken by a
\* later navigateTo paints nothing
renderWallsIfCurrent(k) ==
    /\ pendingRenders[k].kind = "walls"
    /\ MayFire(pendingRenders, k)
    /\ roomView' = IF pendingRenders[k].route = currentRoute
                   THEN StaticRoom(pendingRenders[k].route, currentRoute, roomView.class)
                   ELSE roomView
    /\ pendingRenders' =
           Append(RemoveAt(pendingRenders, k),
                  Pending("cleanup", pendingRenders[k].route,
                          IF pendingRenders[k].delay = ForwardDelay
                          THEN ForwardCleanupDelay ELSE StandardCleanupDelay))
    /\ UNCHANGED <<currentRoute, previousRoute, lastClickedWall, navigationHistory,
                   browserHistory, backButtonDisabled>>

\* the timer of a render fires: the walls of the route it was started for are
\* painted, and the clean-up timer is set
renderWalls(k) ==
    /\ pendingRenders[k].kind = "walls"
    /\ MayFire(pendingRenders, k)
    /\ roomView' = StaticRoom(pendingRenders[k].route, currentRoute, roomView.class)
    /\ pendingRenders' =
           Append(RemoveAt(pendingRenders, k),
                  Pending("cleanup", pendingRenders[k].route,
                          IF pendingRenders[k].delay = ForwardDelay
                          THEN ForwardCleanupDelay ELSE StandardCleanupDelay))
    /\ UNCHANGED <<currentRoute, previousRoute, lastClickedWall, navigationHistory,
                   browserHistory, backButtonDisabled>>

\* the clean-up timer of a render fires: transition classes go, updateBackButton
renderCleanup(k) ==
    /\ pendingRenders[k].kind = "cleanup"
    /\ MayFire(pendingRenders, k)
    /\ roomView' = [roomView EXCEPT !.class =
                       IF @ \in {"new-room-enter", "move-forward"} THEN "" ELSE @]
    /\ backButtonDisabled' = (currentRoute = Home)
    /\ pendingRenders' = RemoveAt(pendingRenders, k)
    /\ UNCHANGED <<currentRoute, previousRoute, lastClickedWall, navigationHistory,
                   browserHistory>>

\* the init() awaited by handleControllerRoute settles: the controller renders
\* (AboutController.init renders itself) and updateBackButton runs
controllerInitDone(k) ==
    /\ pendingRenders[k].kind = "init"
    /\ LET taken == HandleControllerRoute(pendingRenders[k].route, presentControllers)
       IN  roomView' = ControllerRoom(pendingRenders[k].route, taken.controller,
                                      taken.collectionId)
    /\ backButtonDisabled' = (currentRoute = Home)
    /\ pendingRenders' = RemoveAt(pendingRenders, k)
    /\ UNCHANGED <<currentRoute, previousRoute, lastClickedWall, navigationHistory,
                   browserHistory>>

-----------------------------------------------------------------------------
(* ContentLoader *)

\* the argument of loadContent and prefetchContent, as its '/'-separated parts
ContentPaths == {<<"about.md">>, <<"blog", "first.md">>}

\* the argument of loadGallery
GalleryPaths == {<<"photos", "gallery.json">>}

\* `content/${path}`
FullPath(path) == <<"content">> \o path

\* ContentLoader.cache.has(key)
CacheHas(entries, key) == \E e \in entries : e.key = key

\* ContentLoader.cache.get(key), where the cache has the key
CacheGet(entries, key) == (CHOOSE e \in entries : e.key = key).value

\* ContentLoader.cache.set(key, value)
CacheSet(entries, key, value) ==
    {e \in entries : e.key # key} \cup {[key |-> key, value |-> value]}

\* the text of a fetched file, which the model does not look into
Markdown == <<"text">>

\* a fetch that has not settled, and the method that awaits it
Fetch(method, path) == [method |-> method, path |-> path]

\* ContentLoader.prefetchContent(path), up to its fetch: the cache is asked
\* for path itself
prefetchContent(path) ==
    IF CacheHas(cache, path) \/ path \in loadingStates
    THEN UNCHANGED <<cache, loadingStates, fetching>>
    ELSE /\ loadingStates' = loadingStates \cup {path}
         /\ fetching' = Append(fetching, Fetch("prefetchContent", path))
         /\ cache' = cache

\* the fetch of prefetchContent settles: answered with ok, answered with an
\* error status, or rejected; the finally clause runs in each case
prefetchSettled(k, outcome) ==
    /\ fetching[k].method = "prefetchContent"
    /\ cache' = IF outcome = "ok"
                THEN CacheSet(cache, FullPath(fetching[k].path), Markdown)
                ELSE cache
    /\ loadingStates' = loadingStates \ {fetching[k].path}
    /\ fetching' = RemoveAt(fetching, k)

\* ContentLoader.loadContent(path, element), up to its fetch
loadContent(path) ==
    /\ fetching' = IF CacheHas(cache, FullPath(path)) THEN fetching
                   ELSE Append(fetching, Fetch("loadContent", path))
    /\ UNCHANGED <<cache, loadingStates>>

\* the fetch of loadContent settles: the text is cached and rendered, or the
\* error is shown
loadSettled(k, outcome) ==
    /\ fetching[k].method = "loadContent"
    /\ cache' = IF outcome = "ok"
                THEN CacheSet(cache, FullPath(fetching[k].path), Markdown)
                ELSE cache
    /\ fetching' = RemoveAt(fetching, k)
    /\ UNCHANGED loadingStates

\* ContentLoader.renderGallery(galleryData, element)
renderGallery(photos) ==
    IF Len(photos) = 0
    THEN UNCHANGED <<galleryPhotos, currentPhotoIndex>>
    ELSE /\ currentPhotoIndex' = 0
         /\ galleryPhotos' = Array(photos)

\* ContentLoader.loadGallery(jsonPath, element), up to its fetch
loadGallery(path) ==
    IF CacheHas(cache, FullPath(path))
    THEN /\ renderGallery(CacheGet(cache, FullPath(path)))
         /\ UNCHANGED <<cache, loadingStates, fetching>>
    ELSE /\ fetching' = Append(fetching, Fetch("loadGallery", path))
         /\ UNCHANGED <<cache, loadingStates, galleryPhotos, currentPhotoIndex>>

\* the fetch of loadGallery settles with the photos of the JSON file
gallerySettled(k, outcome, photos) ==
    /\ fetching[k].method = "loadGallery"
    /\ IF outcome = "ok"
       THEN /\ cache' = CacheSet(cache, FullPath(fetching[k].path), photos)
            /\ renderGallery(photos)
       ELSE UNCHANGED <<cache, galleryPhotos, currentPhotoIndex>>
    /\ fetching' = RemoveAt(fetching, k)
    /\ UNCHANGED loadingStates

\* ContentLoader.clearCache
clearCache ==
    /\ cache' = {}
    /\ UNCHANGED <<loadingStates, fetching>>

-----------------------------------------------------------------------------
(* UniversalContentLightbox *)

\* UniversalContentLightbox.open(content, type, contentArray, index); content
\* and type are truthy wherever the controllers call it, renderLightbox shows
\* content and show() sets isOpen; closeCalled records that close() has been
\* called since the last open()
LightboxOpen(lb, content, type, contentArray, index) ==
    [isOpen |-> TRUE, currentContent |-> content, currentType |-> type,
     contentArray |-> contentArray, currentIndex |-> index, rendered |-> content,
     closeCalled |-> FALSE]

\* contentArray[index] of the lightbox, index counting from 0
ItemAt(lb, index) == lb.contentArray.items[index + 1]

\* UniversalContentLightbox.navigatePrevious: only the index moves, and the item
\* at the new index is rendered
navigatePrevious(lb) ==
    IF lb.contentArray.isNull \/ lb.currentIndex <= 0 THEN lb
    ELSE [lb EXCEPT !.currentIndex = @ - 1, !.rendered = ItemAt(lb, lb.currentIndex - 1)]

\* UniversalContentLightbox.navigateNext
navigateNext(lb) ==
    IF lb.contentArray.isNull \/ lb.currentIndex >= Len(lb.contentArray.items) - 1 THEN lb
    ELSE [lb EXCEPT !.currentIndex = @ + 1, !.rendered = ItemAt(lb, lb.currentIndex + 1)]

\* a timer or an awaited fetch of the lightbox, the sitemap or the search
UiTimer(kind, controller, payload) ==
    [kind |-> kind, controller |-> controller, payload |-> payload]

\* UniversalContentLightbox.close(): nothing while closed, else the hide is left
\* to a timer
LightboxCloseTimers(lb) ==
    IF lb.isOpen THEN <<UiTimer("lightboxHide", NoController, Null)>> ELSE <<>>

-----------------------------------------------------------------------------
(* The controllers' open<Domain>InLightbox(id) *)

\* what collection['constructor'] yields on an object that has no such key
InheritedFunction == [isFunction |-> TRUE]

\* an id that names a property of Object.prototype
InheritedIds == {<<"c", "o", "n", "s", "t", "r", "u", "c", "t", "o", "r">>}

\* the value undefined
Undefined == [isUndefined |-> TRUE]

\* collection[id]: the own entry, else what the prototype chain holds, else undefined
Lookup(collection, id) ==
    IF \E i \in DOMAIN collection.entries : collection.entries[i].key = id
    THEN collection.entries[CHOOSE i \in DOMAIN collection.entries :
                                collection.entries[i].key = id].value
    ELSE IF id \in InheritedIds THEN InheritedFunction
    ELSE Undefined

\* array.filter(x => x.collection === current); a record without the field
\* has collection undefined
RECURSIVE InCollection(_, _)
InCollection(items, current) ==
    IF items = <<>> THEN <<>>
    ELSE (IF "collection" \in DOMAIN Head(items) /\ Head(items).collection = current
          THEN <<Head(items)>> ELSE <<>>) \o InCollection(Tail(items), current)

\* array.findIndex(x => key(x) === id), -1 when there is none
FindIndex(c, items, id) ==
    IF \E i \in DOMAIN items : KeyOf(c, items[i]) = id
    THEN (CHOOSE i \in DOMAIN items :
              /\ KeyOf(c, items[i]) = id
              /\ \A j \in 1..(i - 1) : KeyOf(c, items[j]) # id) - 1
    ELSE -1

\* the ContentTypes constant each controller opens the lightbox with
ContentType(c) ==
    CASE c = "PhotographyController"     -> "photo"
      [] c = "WritingsController"        -> "writing"
      [] c = "MusicController"           -> "music"
      [] c = "ProjectsController"        -> "project"
      [] c = "CuratedWritingsController" -> "curated_writing"
      [] c = "CuratedCinemaController"   -> "curated_cinema"
      [] c = "CuratedMusicController"    -> "curated_music"
      [] OTHER                           -> "curated_misc"

\* the array a controller hands to the lightbox for navigation: the items of
\* the current collection (photography, music) or every item; the sorts by
\* date leave records without dates, as these are, in insertion order
NavigationArray(c, collection, views) ==
    IF c \in BrowsingControllers
    THEN InCollection(ObjectValues(collection), views[c].current)
    ELSE ObjectValues(collection)

\* the outcome of a handler: the lightbox it leaves, the timers it starts and
\* the exceptions it raises
Outcome(lb, timers, errors) == [lightbox |-> lb, timers |-> timers, thrown |-> errors]

\* <Controller>.open<Domain>InLightbox(id)
OpenInLightbox(c, id, lb, cols, views) ==
    IF cols[c].isNull
    THEN Outcome(lb, <<>>, {"TypeError: cannot read properties of null"})
    ELSE LET item == Lookup(cols[c], id)
         IN  IF item = Undefined THEN Outcome(lb, <<>>, {})
             ELSE IF c = "WritingsController" /\ item # InheritedFunction
                     /\ "filename" \in DOMAIN item
             THEN Outcome(lb, <<UiTimer("articleLoad", c, item)>>, {})
             ELSE LET items == NavigationArray(c, cols[c], views)
                  IN  Outcome(LightboxOpen(lb, item, ContentType(c), Array(items),
                                           FindIndex(c, items, id)), <<>>, {})

\* WritingsController.loadWritingContent: the article with its content merged
\* in, or the article itself when the fetch fails
FullContent(article, fetchOk) ==
    IF fetchOk
    THEN [f \in DOMAIN article \cup {"content"} |->
             IF f = "content" THEN <<"<", "p", ">">> ELSE article[f]]
    ELSE article

\* the rest of WritingsController.openArticleInLightbox, after the await
ArticleLoaded(article, fetchOk, lb, cols, views) ==
    LET items == NavigationArray("WritingsController", cols["WritingsController"], views)
    IN  LightboxOpen(lb, FullContent(article, fetchOk), "writing", Array(items),
                     FindIndex("WritingsController", items,
                               KeyOf("WritingsController", article)))

-----------------------------------------------------------------------------
(* Result selection and the keydown listeners *)

\* whether currentResults[index] is a result
HasResult(index) == index + 1 \in DOMAIN currentResults

\* the controller openResultInLightbox turns to for a result type
TypeController(type) ==
    CASE type = "photo"           -> "PhotographyController"
      [] type = "writing"         -> "WritingsController"
      [] type = "music"           -> "MusicController"
      [] type = "project"         -> "ProjectsController"
      [] type = "curated_writing" -> "CuratedWritingsController"
      [] type = "curated_cinema"  -> "CuratedCinemaController"
      [] type = "curated_music"   -> "CuratedMusicController"
      [] OTHER                    -> "CuratedMiscController"

\* the result types whose case calls a method the controller does not define:
\* WritingsController has openArticleInLightbox, not openWritingInLightbox
MissingMethodTypes == {"writing"}

NotAFunction == "TypeError: WritingsController.openWritingInLightbox is not a function"

\* SearchSystem.openResultInLightbox(result)
openResultInLightbox(result, lb, present, cols, views) ==
    IF TypeController(result.type) \notin present THEN Outcome(lb, <<>>, {})
    ELSE IF result.type \in MissingMethodTypes THEN Outcome(lb, <<>>, {NotAFunction})
    ELSE OpenInLightbox(TypeController(result.type), result.id, lb, cols, views)

\* SearchSystem.selectResult(index): navigate, close the search, and leave the
\* lightbox to a timer
selectResult(index) ==
    IF ~HasResult(index)
    THEN UNCHANGED <<searchVars, routerVars, collectionView, uiTimers>>
    ELSE /\ navigateTo(currentResults[index + 1].route, TRUE, "null")
         /\ routerCall' = "selectResult"
         /\ closeSearch
         /\ uiTimers' = Append(uiTimers, UiTimer("openResult", NoController,
                                                 currentResults[index + 1]))

\* where a keydown event can be aimed: the search input, or anything that is
\* neither an input nor a textarea
Targets == {"searchInput", "document"}

Keys == {"Escape", "Enter", "ArrowLeft", "ArrowRight", "b", "h", "t", "p", "/"}

\* the branch the keydown listener of App.setupKeyboardShortcuts takes
AppBinding(key, target) ==
    IF target = "searchInput" THEN "none"
    ELSE IF isSearchOpen THEN (IF key = "Escape" THEN "closeSearch" ELSE "none")
    ELSE CASE key = "Escape"     -> "hideSitemap"
           [] key = "p"          -> "toggleSitemap"
           [] key = "b"          -> "goBack"
           [] key = "h"          -> "home"
           [] key = "/"          -> "openSearch"
           [] key = "ArrowLeft"  -> "previousPhoto"
           [] key = "ArrowRight" -> "nextPhoto"
           [] OTHER              -> "none"

\* the keydown listener of ThemeManager.setupToggleButton toggles the theme
ThemeBinding(key, target) == target = "document" /\ ~isSearchOpen /\ key = "t"

\* the theme ThemeManager.toggleTheme switches to
ToggledTheme(theme) == IF theme = "light" THEN "dark" ELSE "light"

\* ThemeManager.toggleTheme: the theme is switched, applied and saved
toggleTheme ==
    /\ currentTheme' = ToggledTheme(currentTheme)
    /\ savedTheme' = ToggledTheme(currentTheme)
    /\ toggledManually' = TRUE
    /\ prefersDark' = prefersDark

\* the theme of a colour scheme
SchemeTheme(dark) == IF dark THEN "dark" ELSE "light"

\* ThemeManager.loadTheme: the saved preference, else the system's scheme
LoadTheme(saved, dark) ==
    IF saved \in {"light", "dark"} THEN saved ELSE SchemeTheme(dark)

\* ThemeManager.setTheme(theme) for 'light' or 'dark': a change is applied and
\* saved
setTheme(theme) ==
    IF theme # currentTheme
    THEN currentTheme' = theme /\ savedTheme' = theme
    ELSE UNCHANGED <<currentTheme, savedTheme>>

\* the system's colour scheme changes and the listener of
\* ThemeManager.watchSystemTheme runs
systemSchemeChange ==
    /\ prefersDark' = ~prefersDark
    /\ IF savedTheme = "null"
       THEN setTheme(SchemeTheme(~prefersDark))
       ELSE UNCHANGED <<currentTheme, savedTheme>>
    /\ toggledManually' = toggledManually

\* ContentLoader.nextPhoto: the index it leaves
NextPhotoIndex(photos, index) ==
    IF ~photos.isNull /\ index < Len(photos.items) - 1 THEN index + 1 ELSE index

\* ContentLoader.previousPhoto: the index it leaves; undefined > 0 is false
PreviousPhotoIndex(photos, index) ==
    IF ~photos.isNull /\ index > 0 THEN index - 1 ELSE index

\* UniversalContentLightbox.handleKeyboard: the part on the lightbox fields
handleKeyboard(lb, key) ==
    IF ~lb.isOpen THEN lb
    ELSE CASE key = "ArrowLeft"  -> navigatePrevious(lb)
           [] key = "ArrowRight" -> navigateNext(lb)
           [] key = "Escape"     -> [lb EXCEPT !.closeCalled = TRUE]
           [] OTHER              -> lb

\* the timers handleKeyboard starts: Escape calls close()
KeyboardCloseTimers(lb, key) ==
    IF key = "Escape" THEN LightboxCloseTimers(lb) ELSE <<>>

\* App.toggleSitemap / App.hideSitemap: showing is immediate, hiding is left
\* to a timer
SitemapTimers(binding, hidden) ==
    IF binding = "hideSitemap" \/ (binding = "toggleSitemap" /\ ~hidden)
    THEN <<UiTimer("sitemapHide", NoController, Null)>> ELSE <<>>

\* ContentLoader.nextPhoto reads galleryPhotos.length, which throws while
\* galleryPhotos is undefined; no wall of the route table is a gallery, so
\* the router never calls loadGallery
GalleryUnset == "TypeError: cannot read properties of undefined (reading 'length')"

\* one keydown event, delivered to the listener of the search input when it
\* is the target and then to the document listeners of ThemeManager,
\* UniversalContentLightbox and App
KeyDown(key, target) ==
    IF target = "searchInput" /\ key = "Enter" /\ Len(currentResults) # 0
    THEN /\ selectResult(selectedResultIndex)
         /\ UNCHANGED <<lightbox, sitemapHidden, themeVars, thrown, galleryPhotos,
                        currentPhotoIndex>>
    ELSE LET binding == AppBinding(key, target)
         IN  /\ IF target = "searchInput" THEN handleKeyboardNavigation(key)
                ELSE CASE binding = "closeSearch" -> closeSearch
                       [] binding = "openSearch"  -> openSearch
                       [] OTHER                   -> UNCHANGED searchVars
             /\ CASE binding = "goBack" -> goBack /\ routerCall' = "goBack"
                  [] binding = "home"   -> navigateTo(Home, TRUE, "null") /\ routerCall' = "home"
                  [] OTHER              -> UNCHANGED <<routerVars, collectionView>>
             /\ IF ThemeBinding(key, target) THEN toggleTheme ELSE UNCHANGED themeVars
             /\ lightbox' = handleKeyboard(lightbox, key)
             /\ uiTimers' = uiTimers \o KeyboardCloseTimers(lightbox, key)
                                     \o SitemapTimers(binding, sitemapHidden)
             /\ sitemapHidden' = IF binding = "toggleSitemap" /\ sitemapHidden THEN FALSE
                                 ELSE sitemapHidden
             /\ thrown' = thrown \cup (IF binding = "nextPhoto" /\ galleryPhotos.isNull
                                       THEN {GalleryUnset} ELSE {})
             /\ galleryPhotos' = galleryPhotos
             /\ currentPhotoIndex' =
                    CASE binding = "nextPhoto" ->
                            NextPhotoIndex(galleryPhotos, currentPhotoIndex)
                      [] binding = "previousPhoto" ->
                            PreviousPhotoIndex(galleryPhotos, currentPhotoIndex)
                      [] OTHER -> currentPhotoIndex

-----------------------------------------------------------------------------
(* Initial states *)

\* the Router object as declared, before Router.init has handled a route
RouterInit ==
    /\ currentRoute = Home
    /\ previousRoute = Home
    /\ lastClickedWall = "null"
    /\ navigationHistory = <<>>
    /\ browserHistory = <<>>
    /\ roomView = BlankRoom
    /\ backButtonDisabled = FALSE
    /\ pendingRenders = <<>>
    /\ routerCall = "none"
    /\ locationHash = Home
    /\ hashChangePending = FALSE

\* the lightbox closed, as declared
LightboxClosed ==
    [isOpen |-> FALSE, currentContent |-> Null, currentType |-> "null",
     contentArray |-> Null, currentIndex |-> 0, rendered |-> Null,
     closeCalled |-> FALSE]

\* the view fields App.initializeControllers leaves for the loaded collections
ViewsAfterInit(cols) ==
    [c \in BrowsingControllers |->
        IdentifyFeatured(c, NoView, ~cols[c].isNull /\ cols[c].entries # <<>>)]

\* lightbox, sitemap and theme as the page starts with them
UiInit ==
    /\ lightbox = LightboxClosed
    /\ uiTimers = <<>>
    /\ sitemapHidden = TRUE
    /\ savedTheme = "null"
    /\ prefersDark = FALSE
    /\ currentTheme = LoadTheme(savedTheme, prefersDark)
    /\ toggledManually = FALSE
    /\ thrown = {}

\* the ContentLoader object as declared
ContentLoaderInit ==
    /\ cache = {}
    /\ loadingStates = {}
    /\ fetching = <<>>
    /\ galleryPhotos = Null
    /\ currentPhotoIndex = 0

\* the SearchSystem object as declared
SearchSystemInit ==
    /\ searchIndex = <<>>
    /\ isIndexed = FALSE
    /\ isSearchOpen = FALSE
    /\ currentResults = <<>>
    /\ selectedResultIndex = 0
    /\ inputValue = <<>>
    /\ buildsSinceLoad = 0
    /\ searchQuery = <<>>
    /\ searchReturn = <<>>

\* the photography fetch failed and the others were answered
PhotosFailed == [AllLoaded EXCEPT !["PhotographyController"] = LoadData("PhotographyController", FALSE)]

\* the collections App.initializeControllers can leave behind
Worlds == {AllLoaded, PhotosFailed, NoneLoaded}

-----------------------------------------------------------------------------
(* IndexSpec: the controllers load one after the other, as                 *)
(* App.initializeControllers awaits them, and the index is (re)built.      *)

\* the controller scripts the page may have loaded: all of them, or all but one
ScriptSets ==
    {AllControllers, AllControllers \ {"PhotographyController"},
     AllControllers \ {"CuratedMiscController"}}

IndexInit ==
    /\ presentControllers \in ScriptSets
    /\ collections = NoneLoaded
    /\ initStep = 0
    /\ collectionView = ViewsAfterInit(collections)
    /\ UiInit
    /\ ContentLoaderInit
    /\ SearchSystemInit
    /\ RouterInit

\* App.initializeControllers: await the next controller's init()
InitializeNextController ==
    /\ initStep < Len(Controllers)
    /\ IF Controllers[initStep + 1] \in presentControllers
       THEN \/ \E fetchOk \in BOOLEAN : ControllerInit(Controllers[initStep + 1], fetchOk)
            \/ \E form \in JsonForms(Controllers[initStep + 1]) :
                  ControllerInitFrom(Controllers[initStep + 1], form)
       ELSE UNCHANGED <<collections, collectionView, buildsSinceLoad>>
    /\ initStep' = initStep + 1
    /\ UNCHANGED <<presentControllers, hashChangePending, loaderVars, searchVars, searchQuery, searchReturn, routerVars,
                   uiVars>>

\* Router.handleControllerRoute('/works/personal/photography') awaits
\* PhotographyController.init() again on every visit
ReloadPhotography ==
    /\ initStep >= 1
    /\ "PhotographyController" \in presentControllers
    /\ \/ \E fetchOk \in BOOLEAN : ControllerInit("PhotographyController", fetchOk)
       \/ \E form \in JsonForms("PhotographyController") :
             ControllerInitFrom("PhotographyController", form)
    /\ UNCHANGED <<presentControllers, hashChangePending, loaderVars, initStep, searchVars, searchQuery, searchReturn,
                   routerVars, uiVars>>

BuildSearchIndex ==
    /\ buildSearchIndex
    /\ UNCHANGED <<contentVars, hashChangePending, loaderVars, isSearchOpen, currentResults, selectedResultIndex,
                   inputValue, searchQuery, searchReturn, routerVars, collectionView, uiVars>>

IndexNext ==
    \/ InitializeNextController
    \/ ReloadPhotography
    \/ BuildSearchIndex

IndexSpec == IndexInit /\ [][IndexNext]_vars

-----------------------------------------------------------------------------
(* SearchCallSpec: SearchSystem.search called on the index of every world  *)

LoadedInit ==
    /\ presentControllers = AllControllers
    /\ collections \in Worlds
    /\ initStep = Len(Controllers)
    /\ collectionView = ViewsAfterInit(collections)
    /\ UiInit
    /\ ContentLoaderInit
    /\ SearchSystemInit
    /\ RouterInit

\* a direct call SearchSystem.search(query)
CallSearch ==
    /\ \E query \in Queries :
          /\ searchQuery' = query
          /\ searchReturn' = search(searchIndex, query)
    /\ UNCHANGED <<contentVars, hashChangePending, loaderVars, searchVars, buildsSinceLoad, routerVars, collectionView, uiVars>>

SearchCallNext ==
    \/ BuildSearchIndex
    \/ CallSearch

SearchCallSpec == LoadedInit /\ [][SearchCallNext]_vars

-----------------------------------------------------------------------------
(* SearchSpec: the search surface driven by the user                       *)

TypeQuery ==
    /\ \E query \in Queries : handleSearch(query)
    /\ UNCHANGED <<contentVars, hashChangePending, loaderVars, callVars, routerVars, collectionView, uiVars>>

OpenSearch ==
    /\ openSearch
    /\ UNCHANGED <<contentVars, hashChangePending, loaderVars, callVars, routerVars, collectionView, uiVars>>

CloseSearch ==
    /\ closeSearch
    /\ UNCHANGED <<contentVars, hashChangePending, loaderVars, callVars, routerVars, collectionView, uiVars>>

PressKey ==
    /\ \E key \in NavigationKeys : handleKeyboardNavigation(key)
    /\ UNCHANGED <<contentVars, hashChangePending, loaderVars, callVars, routerVars, collectionView, uiVars>>

SearchNext ==
    \/ BuildSearchIndex
    \/ TypeQuery
    \/ OpenSearch
    \/ CloseSearch
    \/ PressKey

SearchSpec == LoadedInit /\ [][SearchNext]_vars

-----------------------------------------------------------------------------
(* RouterSpec: the router driven by the visitor; timers and awaited inits  *)
(* of earlier renders complete in between.                                  *)

\* the keys of data.collections in a curated controller's JSON file
JsonCollections(c) ==
    CASE c = "CuratedWritingsController" -> {"books"}
      [] c = "CuratedCinemaController"   -> {"films"}
      [] c = "CuratedMusicController"    -> {"albums"}
      [] c = "CuratedMiscController"     -> {"podcasts"}
      [] OTHER -> {}

\* the controllers whose overview shows collection buttons
CuratedControllers ==
    {"CuratedWritingsController", "CuratedCinemaController", "CuratedMusicController",
     "CuratedMiscController"}

\* the route under which a curated controller shows its overview
OverviewRoute(c) ==
    CASE c = "CuratedWritingsController" -> CuratedWritings
      [] c = "CuratedCinemaController"   -> CuratedCinema
      [] c = "CuratedMusicController"    -> CuratedMusic
      [] OTHER                           -> CuratedMisc

\* fragments a visitor arrives with: none, a collection route, a mistyped
\* route, and a name that Object.prototype defines
HashRoutes ==
    {Home, CuratedMusic \o <<"albums">>,
     Route2("photography", "street"), Route1("nowhere"), <<"constructor">>}

\* the routes of Router.navigationTree, which the sitemap links to
NavigationTreeRoutes == RouteKeys

CanNavigate == Len(navigationHistory) < MaxNav

RouterWorldInit ==
    /\ presentControllers \in {AllControllers, {}}
    /\ collections = IF presentControllers = {} THEN NoneLoaded ELSE AllLoaded
    /\ initStep = Len(Controllers)
    /\ collectionView = ViewsAfterInit(collections)
    /\ UiInit
    /\ ContentLoaderInit
    /\ SearchSystemInit
    /\ RouterInit

\* hashchange, or Router.init on load: handleRoute reads the fragment
HashChange ==
    /\ CanNavigate
    /\ \E hash \in HashRoutes : locationHash' = hash /\ handleRoute(hash)
    /\ routerCall' = "handleRoute"
    /\ UNCHANGED <<contentVars, hashChangePending, loaderVars, searchVars, buildsSinceLoad, searchQuery, searchReturn, uiVars>>

\* a click on a wall button painted by renderNavigationWall
ClickWall ==
    /\ CanNavigate
    /\ \E button \in roomView.buttons :
          navigateTo(button.route, TRUE, WallType(button.wall))
    /\ routerCall' = "clickWall"
    /\ UNCHANGED <<contentVars, hashChangePending, loaderVars, searchVars, buildsSinceLoad, searchQuery, searchReturn, uiVars>>

\* the back button (while it is enabled) or the 'b' key
GoBack ==
    /\ CanNavigate
    /\ \E via \in {"button", "key"} :
          /\ via = "button" => ~backButtonDisabled
          /\ goBack
    /\ routerCall' = "goBack"
    /\ UNCHANGED <<contentVars, hashChangePending, loaderVars, searchVars, buildsSinceLoad, searchQuery, searchReturn, uiVars>>

\* the 'h' key, or the 'Return to Entrance' button of the NotFound panel
PressHome ==
    /\ CanNavigate
    /\ navigateTo(Home, TRUE, "null")
    /\ routerCall' = "home"
    /\ UNCHANGED <<contentVars, hashChangePending, loaderVars, searchVars, buildsSinceLoad, searchQuery, searchReturn, uiVars>>

\* App.navigateFromSitemap(route)
NavigateFromSitemap ==
    /\ CanNavigate
    /\ \E route \in NavigationTreeRoutes : navigateTo(route, TRUE, "null")
    /\ routerCall' = "sitemap"
    /\ UNCHANGED <<contentVars, hashChangePending, loaderVars, searchVars, buildsSinceLoad, searchQuery, searchReturn, uiVars>>

\* a click on a collection button of a curated controller's overview:
\* <Controller>.navigateToCollection(collectionId)
NavigateToCollection ==
    /\ CanNavigate
    /\ roomView.kind = "controller"
    /\ roomView.controller \in CuratedControllers
    /\ roomView.collectionId = NoCollection
    /\ ~collections[roomView.controller].isNull
    /\ collections[roomView.controller].entries # <<>>
    /\ \E collectionId \in JsonCollections(roomView.controller) :
          navigateTo(OverviewRoute(roomView.controller) \o <<collectionId>>, TRUE, "null")
    /\ routerCall' = "navigateToCollection"
    /\ UNCHANGED <<contentVars, hashChangePending, loaderVars, searchVars, buildsSinceLoad, searchQuery, searchReturn, uiVars>>

RenderWalls ==
    /\ \E k \in DOMAIN pendingRenders : renderWalls(k)
    /\ UNCHANGED <<contentVars, hashChangePending, loaderVars, searchVars, callVars, routerCall, locationHash, collectionView, uiVars>>

RenderCleanup ==
    /\ \E k \in DOMAIN pendingRenders : renderCleanup(k)
    /\ UNCHANGED <<contentVars, hashChangePending, loaderVars, searchVars, callVars, routerCall, locationHash, collectionView, uiVars>>

\* AboutController.init() settles; it does not touch the search collections
AboutInitDone ==
    /\ \E k \in DOMAIN pendingRenders :
          /\ pendingRenders[k].route = About
          /\ controllerInitDone(k)
    /\ UNCHANGED <<contentVars, hashChangePending, loaderVars, searchVars, callVars, routerCall, locationHash, collectionView, uiVars>>

\* PhotographyController.init() settles, having fetched the photos again, and
\* PhotographyController.render() runs on what it loaded
PhotographyInitDone ==
    /\ \E k \in DOMAIN pendingRenders :
          /\ pendingRenders[k].route = PersonalPhotography
          /\ controllerInitDone(k)
    /\ \E fetchOk \in BOOLEAN :
          LET loaded == LoadData("PhotographyController", fetchOk)
              views  == InitViews(collectionView, "PhotographyController", fetchOk)
          IN  /\ collections' = [collections EXCEPT !["PhotographyController"] = loaded]
              /\ collectionView' =
                     [views EXCEPT !["PhotographyController"] = RenderView(@, loaded)]
              /\ buildsSinceLoad' = 0
    /\ UNCHANGED <<presentControllers, hashChangePending, loaderVars, initStep, searchVars, searchQuery, searchReturn,
                   routerCall, locationHash, uiVars>>

RouterNext ==
    \/ HashChange
    \/ ClickWall
    \/ GoBack
    \/ PressHome
    \/ NavigateFromSitemap
    \/ NavigateToCollection
    \/ RenderWalls
    \/ RenderCleanup
    \/ AboutInitDone
    \/ PhotographyInitDone

RouterSpec == RouterWorldInit /\ [][RouterNext]_vars

-----------------------------------------------------------------------------
(* AppSpec: the page after App.initializeSystems, driven by keys and clicks; *)
(* timers and awaited fetches complete in between.                           *)

\* what the visitor types into the search input
AppQueries == {<<"e">>, <<>>}

\* ids handed to the open methods by the onclick handlers and by callers
\* holding an id that is not, or no longer, in the collection
CallIds(c) ==
    {KeyOf(c, JsonData(c)[i]) : i \in DOMAIN JsonData(c)}
        \cup {<<"z", "9">>} \cup InheritedIds

CanStartTimer == Len(uiTimers) < MaxTimers

AppInit ==
    /\ presentControllers = AllControllers
    /\ collections = AllLoaded
    /\ initStep = Len(Controllers)
    /\ collectionView = ViewsAfterInit(collections)
    /\ UiInit
    /\ ContentLoaderInit
    /\ searchIndex = BuiltIndex(<<>>, presentControllers, collections)
    /\ isIndexed = TRUE
    /\ isSearchOpen = FALSE
    /\ currentResults = <<>>
    /\ selectedResultIndex = 0
    /\ inputValue = <<>>
    /\ buildsSinceLoad = 1
    /\ searchQuery = <<>>
    /\ searchReturn = <<>>
    /\ RouterInit

\* the visitor types while the search overlay is open
AppTypeQuery ==
    /\ isSearchOpen
    /\ \E query \in AppQueries : handleSearch(query)
    /\ UNCHANGED <<contentVars, hashChangePending, loaderVars, callVars, routerVars, collectionView, uiVars>>

\* one of keys is pressed; the search input can only be the target while it
\* shows
Press(keys) ==
    /\ \E key \in keys, target \in Targets :
          /\ target = "searchInput" => isSearchOpen
          /\ KeyDown(key, target)
    /\ Len(uiTimers') <= MaxTimers
    /\ Len(navigationHistory') <= MaxAppNav
    /\ UNCHANGED <<contentVars, hashChangePending, cache, loadingStates, fetching, callVars>>

\* the keys pressed in AppSpec: all but the theme's, which ThemeSpec presses
AppKeys == Keys \ {"t"}

PressAnyKey == Press(AppKeys)

\* a click on a rendered search result
ClickResult ==
    /\ isSearchOpen
    /\ CanStartTimer
    /\ Len(navigationHistory) < MaxAppNav
    /\ \E i \in DOMAIN currentResults : selectResult(i - 1)
    /\ UNCHANGED <<contentVars, hashChangePending, loaderVars, callVars, lightbox, sitemapHidden, themeVars, thrown>>

\* controller c's open method is called with id
OpenCall(c, id) ==
    /\ LET out == OpenInLightbox(c, id, lightbox, collections, collectionView)
       IN  /\ lightbox' = out.lightbox
           /\ uiTimers' = uiTimers \o out.timers
           /\ thrown' = thrown \cup out.thrown
    /\ UNCHANGED <<contentVars, hashChangePending, loaderVars, searchVars, callVars, routerVars, collectionView,
                   sitemapHidden, themeVars>>

\* a controller's open method is called with an id
CallOpenInLightbox ==
    /\ CanStartTimer
    /\ \E c \in ControllerNames \cap presentControllers :
          \E id \in CallIds(c) : OpenCall(c, id)

\* a controller's open method is called after close(), before the timer of
\* close() has fired; the call starts no timer of its own
OpenWhileClosing ==
    /\ \E k \in DOMAIN uiTimers : uiTimers[k].kind = "lightboxHide"
    /\ \E c \in ControllerNames \cap presentControllers :
          \E id \in CallIds(c) : OpenCall(c, id)
    /\ uiTimers' = uiTimers

\* the 300 ms timer of selectResult fires
OpenResultTimer ==
    /\ \E k \in DOMAIN uiTimers :
          /\ uiTimers[k].kind = "openResult"
          /\ LET out == openResultInLightbox(uiTimers[k].payload, lightbox,
                                             presentControllers, collections, collectionView)
             IN  /\ lightbox' = out.lightbox
                 /\ uiTimers' = RemoveAt(uiTimers, k) \o out.timers
                 /\ thrown' = thrown \cup out.thrown
    /\ UNCHANGED <<contentVars, hashChangePending, loaderVars, searchVars, callVars, routerVars, collectionView,
                   sitemapHidden, themeVars>>

\* the fetch awaited by WritingsController.openArticleInLightbox settles
ArticleLoadDone ==
    /\ \E k \in DOMAIN uiTimers :
          /\ uiTimers[k].kind = "articleLoad"
          /\ \E fetchOk \in BOOLEAN :
                lightbox' = ArticleLoaded(uiTimers[k].payload, fetchOk, lightbox,
                                          collections, collectionView)
          /\ uiTimers' = RemoveAt(uiTimers, k)
    /\ UNCHANGED <<contentVars, hashChangePending, loaderVars, searchVars, callVars, routerVars, collectionView,
                   sitemapHidden, themeVars, thrown>>

\* the 200 ms timer of UniversalContentLightbox.close fires
LightboxHideTimer ==
    /\ \E k \in DOMAIN uiTimers :
          /\ uiTimers[k].kind = "lightboxHide"
          /\ uiTimers' = RemoveAt(uiTimers, k)
    /\ lightbox' = LightboxClosed
    /\ UNCHANGED <<contentVars, hashChangePending, loaderVars, searchVars, callVars, routerVars, collectionView,
                   sitemapHidden, themeVars, thrown>>

\* the 200 ms timer of App.hideSitemap fires
SitemapHideTimer ==
    /\ \E k \in DOMAIN uiTimers :
          /\ uiTimers[k].kind = "sitemapHide"
          /\ uiTimers' = RemoveAt(uiTimers, k)
    /\ sitemapHidden' = TRUE
    /\ UNCHANGED <<contentVars, hashChangePending, loaderVars, searchVars, callVars, routerVars, collectionView,
                   lightbox, themeVars, thrown>>

AppNext ==
    \/ AppTypeQuery
    \/ PressAnyKey
    \/ ClickResult
    \/ CallOpenInLightbox
    \/ OpenResultTimer
    \/ ArticleLoadDone
    \/ LightboxHideTimer
    \/ SitemapHideTimer
    \/ RenderWalls
    \/ RenderCleanup

AppSpec == AppInit /\ [][AppNext]_vars

-----------------------------------------------------------------------------
(* LightboxSpec: the lightbox opened from the walls and driven by keys,    *)
(* the search overlay being opened and closed but not typed into.          *)

\* the keys the lightbox listens to, and the key that opens the search
LightboxKeys == {"Escape", "ArrowLeft", "ArrowRight", "/"}

PressLightboxKey == Press(LightboxKeys)

LightboxNext ==
    \/ PressLightboxKey
    \/ CallOpenInLightbox
    \/ OpenWhileClosing
    \/ ArticleLoadDone
    \/ LightboxHideTimer
    \/ SitemapHideTimer

LightboxSpec == AppInit /\ [][LightboxNext]_vars

-----------------------------------------------------------------------------
(* ViewClassSpec: one call of Router.navigateTo with any clicked wall, from *)
(* each route an earlier navigation can have left, the controller scripts   *)
(* being absent so that every key of the table is rendered from the table.  *)

\* the routes navigateTo is called with: the keys of the table, a collection
\* route, a mistyped route, and a name that Object.prototype defines
ViewRoutes ==
    RouteKeys \cup {CuratedMusic \o <<"albums">>, Route1("nowhere"), <<"constructor">>}

\* the values of the clickedWall argument: the wall types renderNavigationWall
\* passes, and the default null
ClickedWalls == {"left", "right", "back", "front", "null"}

\* the room once the render of route has completed, no controller being present
SettledRoom(route) ==
    IF HasRouteConfig(route) THEN StaticRoom(route, route, "") ELSE show404(BlankRoom)

\* an earlier navigateTo(route) from the page as loaded has completed
ViewClassInit ==
    /\ presentControllers = {}
    /\ collections = NoneLoaded
    /\ initStep = Len(Controllers)
    /\ collectionView = ViewsAfterInit(collections)
    /\ UiInit
    /\ ContentLoaderInit
    /\ SearchSystemInit
    /\ currentRoute \in ViewRoutes
    /\ locationHash = currentRoute
    /\ hashChangePending = FALSE
    /\ previousRoute = Home
    /\ lastClickedWall = "null"
    /\ navigationHistory = <<currentRoute>>
    /\ browserHistory = <<>>
    /\ roomView = SettledRoom(currentRoute)
    /\ backButtonDisabled = (currentRoute = Home)
    /\ pendingRenders = <<>>
    /\ routerCall = "handleRoute"

\* Router.navigateTo(route, addToHistory, clickedWall), called once
NavigateToCall ==
    /\ Len(navigationHistory) = 1
    /\ \E route \in ViewRoutes, addToHistory \in BOOLEAN, clickedWall \in ClickedWalls :
          /\ navigateTo(route, addToHistory, clickedWall)
          /\ ~addToHistory => locationHash' = locationHash
    /\ routerCall' = "navigateTo"
    /\ UNCHANGED <<contentVars, hashChangePending, loaderVars, searchVars, buildsSinceLoad, searchQuery, searchReturn, uiVars>>

ViewClassNext ==
    \/ NavigateToCall
    \/ RenderWalls
    \/ RenderCleanup

ViewClassSpec == ViewClassInit /\ [][ViewClassNext]_vars

-----------------------------------------------------------------------------
(* LoaderSpec: the ContentLoader called by walls and by callers that       *)
(* prefetch, its fetches settling in between, and the arrow keys.          *)

\* what a gallery file can hold in its photos field
GalleryData == {<<>>, <<"p1">>, <<"p1", "p2", "p3">>}

\* how a fetch settles: answered with ok, answered with an error status,
\* rejected
FetchOutcomes == {"ok", "notOk", "rejected"}

CanFetch == Len(fetching) < MaxFetches

\* everything but the ContentLoader's cache, marks and fetches
NotTheLoader ==
    <<contentVars, hashChangePending, searchVars, callVars, routerVars, collectionView, uiVars>>

PrefetchContent ==
    /\ CanFetch
    /\ \E path \in ContentPaths : prefetchContent(path)
    /\ UNCHANGED <<NotTheLoader, galleryPhotos, currentPhotoIndex>>

PrefetchSettled ==
    /\ \E k \in DOMAIN fetching, outcome \in FetchOutcomes : prefetchSettled(k, outcome)
    /\ UNCHANGED <<NotTheLoader, galleryPhotos, currentPhotoIndex>>

LoadContent ==
    /\ CanFetch
    /\ \E path \in ContentPaths : loadContent(path)
    /\ UNCHANGED <<NotTheLoader, galleryPhotos, currentPhotoIndex>>

LoadSettled ==
    /\ \E k \in DOMAIN fetching, outcome \in FetchOutcomes : loadSettled(k, outcome)
    /\ UNCHANGED <<NotTheLoader, galleryPhotos, currentPhotoIndex>>

LoadGallery ==
    /\ CanFetch
    /\ \E path \in GalleryPaths : loadGallery(path)
    /\ UNCHANGED NotTheLoader

GallerySettled ==
    /\ \E k \in DOMAIN fetching, outcome \in FetchOutcomes, photos \in GalleryData :
          gallerySettled(k, outcome, photos)
    /\ UNCHANGED NotTheLoader

ClearCache ==
    /\ clearCache
    /\ UNCHANGED <<NotTheLoader, galleryPhotos, currentPhotoIndex>>

\* the keys App.setupKeyboardShortcuts binds to the gallery
GalleryKeys == {"ArrowLeft", "ArrowRight"}

PressGalleryKey == Press(GalleryKeys)

LoaderNext ==
    \/ PrefetchContent
    \/ PrefetchSettled
    \/ LoadContent
    \/ LoadSettled
    \/ LoadGallery
    \/ GallerySettled
    \/ ClearCache
    \/ PressGalleryKey

LoaderSpec == AppInit /\ [][LoaderNext]_vars

-----------------------------------------------------------------------------
(* ThemeSpec: the theme toggled by its button and its key and following    *)
(* the system's colour scheme, beside the lightbox and the overlays.       *)

\* the key of the theme, and keys of the overlays
ThemeKeys == {"t", "p", "/", "Escape"}

PressThemeKey == Press(ThemeKeys)

\* a click on the theme toggle button
ClickThemeToggle ==
    /\ toggleTheme
    /\ UNCHANGED <<contentVars, hashChangePending, loaderVars, searchVars, callVars, routerVars, collectionView,
                   lightbox, uiTimers, sitemapHidden, thrown>>

SystemSchemeChange ==
    /\ systemSchemeChange
    /\ UNCHANGED <<contentVars, hashChangePending, loaderVars, searchVars, callVars, routerVars, collectionView,
                   lightbox, uiTimers, sitemapHidden, thrown>>

ThemeNext ==
    \/ PressThemeKey
    \/ ClickThemeToggle
    \/ SystemSchemeChange
    \/ CallOpenInLightbox
    \/ ArticleLoadDone
    \/ LightboxHideTimer
    \/ SitemapHideTimer

ThemeSpec == AppInit /\ [][ThemeNext]_vars

-----------------------------------------------------------------------------
(* TraversalSpec: the browser's back and forward buttons move through the  *)
(* session history, which outlives the page; the visitor also edits the    *)
(* fragment and clicks walls, and renders complete in between.             *)

\* the fragments of the entries of the session history
TraversalRoutes == {Home, Works, PersonalMusic, Route1("nowhere")}

\* the entries a traversal can land on
SessionEntries ==
    {HistoryEntry(fragment, pushed) : fragment \in TraversalRoutes, pushed \in BOOLEAN}

\* whether the browser queues a hashchange for a traversal to fragment: it
\* does when the fragment changes, and between a URL without '#' and one
\* ending in '#' it may
HashChangeQueued(fragment) ==
    IF fragment # locationHash THEN {TRUE}
    ELSE IF fragment = Home THEN BOOLEAN ELSE {FALSE}

\* a traversal to an entry: the URL changes and the popstate listener runs
Traverse ==
    /\ CanNavigate
    /\ ~hashChangePending
    /\ navigationHistory # <<>>
    /\ \E entry \in SessionEntries :
          /\ locationHash' = entry.fragment
          /\ hashChangePending' \in HashChangeQueued(entry.fragment)
          /\ popstate(entry)
    /\ UNCHANGED <<contentVars, loaderVars, searchVars, callVars, uiVars>>

\* the hashchange listener runs for the event queued by a traversal
TraversalHashChange ==
    /\ hashChangePending
    /\ hashChangePending' = FALSE
    /\ handleRoute(locationHash)
    /\ locationHash' = locationHash
    /\ routerCall' = IF routerCall = "popstate" THEN "popstate, hashchange" ELSE "hashchange"
    /\ UNCHANGED <<contentVars, loaderVars, searchVars, callVars, uiVars>>

\* the visitor edits the fragment, no event of a traversal being queued
EditFragment == ~hashChangePending /\ HashChange

\* the visitor clicks a wall, no event of a traversal being queued
ClickWallWhenIdle == ~hashChangePending /\ ClickWall

TraversalNext ==
    \/ Traverse
    \/ TraversalHashChange
    \/ EditFragment
    \/ ClickWallWhenIdle
    \/ RenderWalls
    \/ RenderCleanup
    \/ AboutInitDone

TraversalSpec == RouterWorldInit /\ [][TraversalNext]_vars

-----------------------------------------------------------------------------
(* Properties of SearchSystem.search *)

\* the index entry a search result was made from
EntryOf(result) == [f \in DOMAIN result \ {"score"} |-> result[f]]

\* a query that is empty or consists of white space only
IsBlank(query) == \A i \in DOMAIN query : IsWhiteSpace(query[i])

ScoresPositive(results) == \A i \in DOMAIN results : results[i].score > 0

ScoresNonIncreasing(results) ==
    \A i \in DOMAIN results : \A j \in DOMAIN results :
        i < j => results[i].score >= results[j].score

TiesInIndexOrder(results, index) ==
    \A i \in DOMAIN results : \A j \in DOMAIN results :
        (i < j /\ results[i].score = results[j].score) =>
            \E a \in DOMAIN index : \E b \in DOMAIN index :
                /\ a < b
                /\ index[a] = EntryOf(results[i])
                /\ index[b] = EntryOf(results[j])

\* C1: for every index and every query that is not blank, search returns only
\* entries of score > 0, in order of non-increasing score, and results of equal
\* score keep the order their entries have in the index.
C1_ResultsPositiveSortedStable ==
    [][(CallSearch /\ ~IsBlank(searchQuery')) =>
          /\ ScoresPositive(searchReturn')
          /\ ScoresNonIncreasing(searchReturn')
          /\ TiesInIndexOrder(searchReturn', searchIndex)]_vars

\* a search for a query that is not blank returned two results of equal score
\* behind a result whose entry comes later in the index than theirs
C1_Witness ==
    /\ ~IsBlank(searchQuery)
    /\ \E i \in DOMAIN searchReturn : \E j \in DOMAIN searchReturn :
          /\ i < j
          /\ searchReturn[i].score = searchReturn[j].score
    /\ \E i \in DOMAIN searchReturn : \E j \in DOMAIN searchReturn :
          \E a \in DOMAIN searchIndex : \E b \in DOMAIN searchIndex :
              /\ i < j
              /\ b < a
              /\ searchReturn[i].score > searchReturn[j].score
              /\ searchIndex[a] = EntryOf(searchReturn[i])
              /\ searchIndex[b] = EntryOf(searchReturn[j])

\* the weight of each scored field, as the specification lists them
FieldWeights ==
    [title |-> 10, author |-> 7, director |-> 7, creator |-> 7, location |-> 6,
     description |-> 5, contentType |-> 3]

RECURSIVE SumOfWeights(_)
SumOfWeights(fields) ==
    IF fields = {} THEN 0
    ELSE LET f == CHOOSE x \in fields : TRUE
         IN  FieldWeights[f] + SumOfWeights(fields \ {f})

\* the sum of the weights of the fields that contain q, 8 for every tag that does
WeightedSum(entry, q) ==
    SumOfWeights({f \in DOMAIN FieldWeights \cap DOMAIN entry :
                     Includes(ToLowerCase(entry[f]), q)})
      + 8 * Cardinality({i \in DOMAIN entry.tags :
                            Includes(ToLowerCase(entry.tags[i]), q)})

\* C2: the score of every result is the sum of the fixed weights of the fields
\* that contain the lowercased, trimmed query (title 10, author 7, director 7,
\* creator 7, location 6, each matching tag 8, description 5, contentType 3), and
\* an index entry is returned if and only if that sum is not zero.
C2_ScoreIsWeightedSum ==
    [][(CallSearch /\ ~IsBlank(searchQuery')) =>
          LET q == Trim(ToLowerCase(searchQuery'))
              returned == {a \in DOMAIN searchIndex : WeightedSum(searchIndex[a], q) # 0}
          IN  /\ Len(searchReturn') = Cardinality(returned)
              /\ \A a \in returned : \E r \in DOMAIN searchReturn' :
                     /\ EntryOf(searchReturn'[r]) = searchIndex[a]
                     /\ searchReturn'[r].score = WeightedSum(searchIndex[a], q)]_vars

\* the query " NIGHT " returned the entry titled "Night Walk", whose tags are
\* "urban" and "night", with a score of at least 10 + 8
C2_Witness ==
    /\ searchQuery = QueryNightPadded
    /\ \E r \in DOMAIN searchReturn :
          /\ searchReturn[r].title = NightWalk.title
          /\ searchReturn[r].tags = NightWalk.tags
          /\ searchReturn[r].score >= 18

\* C3: search returns the empty sequence for the empty query and for every query
\* of white space only, whatever the index holds.
C3_BlankQueryReturnsNothing ==
    [][(CallSearch /\ IsBlank(searchQuery')) => searchReturn' = <<>>]_vars

\* search was called with a query of blanks on a built, non-empty index
C3_Witness ==
    /\ searchIndex # <<>>
    /\ searchQuery # <<>>
    /\ IsBlank(searchQuery)
    /\ searchReturn = <<>>

-----------------------------------------------------------------------------
(* Properties of SearchSystem.buildSearchIndex *)

TypeIdPairs(index) == [i \in DOMAIN index |-> <<index[i].type, index[i].id>>]

\* C4: a buildSearchIndex call that follows another one, no collection having
\* been loaded in between, leaves an index of the same length and the same
\* (type, id) pairs, position by position.
C4_BuildIndexIdempotent ==
    [][(BuildSearchIndex /\ buildsSinceLoad >= 1) =>
          /\ Len(searchIndex') = Len(searchIndex)
          /\ TypeIdPairs(searchIndex') = TypeIdPairs(searchIndex)]_vars

\* the index was built twice over the same collections and holds several types
C4_Witness ==
    /\ buildsSinceLoad = 2
    /\ \E i \in DOMAIN searchIndex : \E j \in DOMAIN searchIndex :
          searchIndex[i].type # searchIndex[j].type

-----------------------------------------------------------------------------
(* Properties of the search surface *)

SelectionInRange ==
    currentResults # <<>> =>
        /\ 0 <= selectedResultIndex
        /\ selectedResultIndex <= Len(currentResults) - 1

\* C9: whenever currentResults is not empty the selected index lies in
\* 0..len-1; ArrowDown on the last result leaves the selection on it and ArrowUp
\* on the first result leaves the selection on it.
C9_SelectionClamped ==
    /\ []SelectionInRange
    /\ [][/\ (/\ handleKeyboardNavigation("ArrowDown")
              /\ currentResults # <<>>
              /\ selectedResultIndex = Len(currentResults) - 1)
                 => selectedResultIndex' = Len(currentResults) - 1
          /\ (/\ handleKeyboardNavigation("ArrowUp")
              /\ currentResults # <<>>
              /\ selectedResultIndex = 0)
                 => selectedResultIndex' = 0]_vars

\* ArrowDown has moved the selection to the last of several results
C9_Witness ==
    /\ Len(currentResults) >= 2
    /\ selectedResultIndex = Len(currentResults) - 1

-----------------------------------------------------------------------------
(* Properties of the router *)

\* the number of non-empty '/'-separated segments: '' 0, /works 1, /works/personal 2
Depth(route) == Cardinality({i \in DOMAIN route : route[i] # ""})

\* this step is a call navigateTo(route)
Navigated(route) == navigationHistory' = Append(navigationHistory, route)

\* the route one level up: the route without its last segment
DeclaredParent(route) == SubSeq(route, 1, Len(route) - 1)

\* the prefixes under which handleControllerRoute looks for a collection id
ControllerPrefixes ==
    {Route1("photography"), CuratedWritings, CuratedCinema, CuratedMusic, CuratedMisc}

\* the controller that renders the collections under a prefix
PrefixController(prefix) ==
    CASE prefix = Route1("photography") -> "PhotographyController"
      [] prefix = CuratedWritings       -> "CuratedWritingsController"
      [] prefix = CuratedCinema         -> "CuratedCinemaController"
      [] prefix = CuratedMusic          -> "CuratedMusicController"
      [] OTHER                          -> "CuratedMiscController"

\* C5: after navigateTo(r) from route p, home included, getViewClass yields
\* move-forward if and only if depth(r) > depth(p).
C5_ForwardIffDeeper ==
    navigationHistory # <<>> =>
        (getViewClass(previousRoute, currentRoute, lastClickedWall) = "move-forward"
            <=> Depth(currentRoute) > Depth(previousRoute))

\* C6: goBack() on a non-home route of the static table makes its declared
\* parent the current route; the parent is a key of the route table and an entry
\* for it is pushed to the browser history.
C6_GoBackReachesParent ==
    [][(GoBack /\ currentRoute \in RouteKeys \ {Home}) =>
          /\ currentRoute' = DeclaredParent(currentRoute)
          /\ currentRoute' \in RouteKeys
          /\ browserHistory' = Append(browserHistory, currentRoute')]_vars

\* goBack() has led from /works/curated/music to /works/curated
C6_Witness ==
    /\ routerCall = "goBack"
    /\ previousRoute = CuratedMusic
    /\ currentRoute = WorksCurated
    /\ browserHistory # <<>>
    /\ browserHistory[Len(browserHistory)] = WorksCurated

\* C7: goBack() while currentRoute is '' changes nothing: the current and the
\* previous route, the navigation log and the browser history stay as they are
\* and no render is triggered.
C7_GoBackAtHomeIsNoOp ==
    [][(GoBack /\ currentRoute = Home) =>
          UNCHANGED <<currentRoute, previousRoute, navigationHistory, browserHistory,
                      roomView, pendingRenders>>]_vars

\* C8: navigateTo(r) for an r that is no key of the static route table and
\* matches no controller prefix renders the NotFound panel and leaves
\* currentRoute equal to r.
C8_UnknownRouteShowsNotFound ==
    [][\A route \in HashRoutes \cup {FunctionAsRoute} :
          (/\ Navigated(route)
           /\ route \notin RouteKeys
           /\ \A prefix \in ControllerPrefixes : ~StartsWithSlash(route, prefix))
          => (roomView'.notFound /\ currentRoute' = route)]_vars

\* C10: navigateTo of a route <controller prefix>/<collectionId> whose
\* controller is present hands the collection id to that controller's render and
\* does not enter the NotFound state.
C10_CollectionRouteDelegated ==
    [][\A prefix \in ControllerPrefixes :
          \A collectionId \in {"albums", "books", "films", "podcasts", "street"} :
              (/\ Navigated(prefix \o <<collectionId>>)
               /\ PrefixController(prefix) \in presentControllers)
              => /\ roomView'.kind = "controller"
                 /\ roomView'.controller = PrefixController(prefix)
                 /\ roomView'.collectionId = collectionId
                 /\ ~roomView'.notFound]_vars

\* s is an initial segment of t
IsPrefix(s, t) == Len(s) <= Len(t) /\ SubSeq(t, 1, Len(s)) = s

\* the entry points that call navigateTo with addToHistory = false
UnrecordedCalls == {"handleRoute"}

\* C11: every navigateTo(route, recordHistory, panel) makes the old current
\* route the previous one, makes route the current one and appends exactly route
\* to the navigation log, which only ever grows at its end; the browser history
\* gains exactly one entry for route when recordHistory is true and is left
\* alone when it is false, and no other step touches either of them.
C11_NavigateToFrame ==
    [][/\ IsPrefix(navigationHistory, navigationHistory')
       /\ navigationHistory' # navigationHistory =>
             /\ navigationHistory' = Append(navigationHistory, currentRoute')
             /\ previousRoute' = currentRoute
             /\ browserHistory' =
                   IF routerCall' \in UnrecordedCalls THEN browserHistory
                   ELSE Append(browserHistory, currentRoute')
       /\ navigationHistory' = navigationHistory =>
             UNCHANGED <<currentRoute, previousRoute, browserHistory>>]_vars

\* a recorded navigation was followed by an unrecorded one to another route
C11_Witness ==
    /\ routerCall = "handleRoute"
    /\ Len(navigationHistory) = 2
    /\ Len(browserHistory) = 1
    /\ currentRoute # previousRoute
    /\ currentRoute = navigationHistory[2]
    /\ previousRoute = navigationHistory[1]

\* the navigation panels the route table declares for route
PanelTargets(route) ==
    {Routes(route).walls[i].config.route : i \in
        {j \in DOMAIN Routes(route).walls : Routes(route).walls[j].config.type = "navigation"}}

\* C16: every target of a navigation panel of the route table, in 3-panel and
\* 4-panel records alike, is a key of the table or a route a controller
\* handles, and activating a panel never leads to NotFound.
C16_PanelTargetsAreRoutes ==
    /\ \A route \in RouteKeys : \A target \in PanelTargets(route) :
          target \in RouteKeys \/ HandleControllerRoute(target, AllControllers).handled
    /\ routerCall = "clickWall" => ~roomView.notFound /\ HasRouteConfig(currentRoute)

\* a panel of the 4-panel record '/works/curated' was activated
C16_Witness ==
    /\ routerCall = "clickWall"
    /\ previousRoute = WorksCurated
    /\ currentRoute = CuratedMisc
    /\ ~roomView.notFound

\* C19: no generation token discards a stale render: a render that completes,
\* by its timer or by the awaited init() of a controller, paints the route
\* it was started for whatever currentRoute has become, so that the render
\* completing last decides what the panels show.
C19_LastRenderWins ==
    [][\A k \in DOMAIN pendingRenders :
          /\ renderWalls(k) =>
                roomView'.kind = "static" /\ roomView'.route = pendingRenders[k].route
          /\ controllerInitDone(k) =>
                roomView'.kind = "controller" /\ roomView'.route = pendingRenders[k].route]_vars

\* every render has completed, and the panels show the route requested
\* first, whose controller was awaited, while currentRoute is the route
\* requested second
C19_Witness ==
    /\ pendingRenders = <<>>
    /\ Len(navigationHistory) = 2
    /\ currentRoute = navigationHistory[2]
    /\ roomView.kind = "controller"
    /\ roomView.route = navigationHistory[1]
    /\ roomView.route # currentRoute

\* C20: the main page header is rendered only when the route being rendered
\* is '': panels painted for another route never carry it, overlapping
\* navigations included.
C20_HeaderOnlyOnHome ==
    (roomView.kind = "static" /\ roomView.route # Home) => ~roomView.header

-----------------------------------------------------------------------------
(* Properties of result selection and of the keyboard *)

\* the pending timers of selectResult
OpenResultTimers(timers) == {k \in DOMAIN timers : timers[k].kind = "openResult"}

\* a step in which selectResult got past its guard
Selects == Cardinality(OpenResultTimers(uiTimers')) > Cardinality(OpenResultTimers(uiTimers))

\* a step in which the timer of selectResult fires
OpensResult == Cardinality(OpenResultTimers(uiTimers')) < Cardinality(OpenResultTimers(uiTimers))

\* C12: selecting a search result, of whichever of the eight types, navigates
\* to the entry's route and closes the search, and when the timer fires the
\* controller's open method is called with the entry's id, without an error,
\* so that the lightbox is open on the entry's record.
C12_SelectedResultOpensInLightbox ==
    [][/\ Selects =>
            /\ routerCall' = "selectResult"
            /\ currentRoute' = uiTimers'[Len(uiTimers')].payload.route
            /\ ~isSearchOpen'
       /\ OpensResult =>
            \E k \in OpenResultTimers(uiTimers) :
               /\ thrown' = thrown
               /\ lightbox'.isOpen
               /\ lightbox'.currentType = uiTimers[k].payload.type
               /\ lightbox'.currentContent = uiTimers[k].payload.data]_vars

\* a step that is the delivery of one keydown event
KeyStep(key, target) ==
    /\ target = "searchInput" => isSearchOpen
    /\ KeyDown(key, target)
    /\ UNCHANGED <<contentVars, hashChangePending, cache, loadingStates, fetching, callVars>>

\* C13: while the search is open, a key other than Escape triggers no other
\* keyboard binding: no goBack, no navigation home, no sitemap or theme
\* toggle, no gallery step and no lightbox previous, next or close.  Enter in
\* the search input is the search's own binding and may navigate.
C13_SearchOpenBlocksOtherBindings ==
    [][\A key \in Keys \ {"Escape"}, target \in Targets :
          isSearchOpen /\ KeyStep(key, target) =>
             /\ lightbox' = lightbox
             /\ sitemapHidden' = sitemapHidden
             /\ currentTheme' = currentTheme
             /\ thrown' = thrown
             /\ key # "Enter" => UNCHANGED <<routerState, uiTimers>>]_vars

\* whether id is no key of controller c's collection
AbsentId(c, id) ==
    \A i \in DOMAIN collections[c].entries : collections[c].entries[i].key # id

\* C14: for every controller, the open method called with an id that is
\* absent from the collection raises nothing and leaves the lightbox as it was.
C14_AbsentIdIsNoOp ==
    [][\A c \in ControllerNames : \A id \in CallIds(c) :
          AbsentId(c, id) /\ OpenCall(c, id) =>
             lightbox' = lightbox /\ thrown' = thrown]_vars

\* C17: whenever the search is open, an Escape key press closes it, whether
\* the event is aimed at the search input or at the document and whatever
\* currentResults holds, the empty list included.
C17_EscapeClosesSearch ==
    [][\A target \in Targets :
          isSearchOpen /\ KeyStep("Escape", target) => ~isSearchOpen']_vars

-----------------------------------------------------------------------------
(* Properties of loading *)

\* the entries of the index that came from controller c
EntriesOf(index, c) == {i \in DOMAIN index : index[i].type = ContentType(c)}

\* C15: a controller whose fetch fails still completes init() and holds an
\* empty mapping, never null; a buildSearchIndex that finds a controller
\* with an empty collection, or finds it absent, adds no entry of its type
\* and ends with isIndexed = TRUE.
C15_FailedLoadLeavesEmptyCollection ==
    [][/\ \A c \in ControllerNames :
             ControllerInit(c, FALSE) =>
                ~collections'[c].isNull /\ collections'[c].entries = <<>>
       /\ BuildSearchIndex =>
             /\ isIndexed'
             /\ \A c \in ControllerNames :
                   (c \notin presentControllers \/ collections[c] = Object(<<>>)) =>
                      EntriesOf(searchIndex', c) = {}]_vars

\* an index built while one controller is absent and another one's fetch
\* had failed, the remaining ones having contributed
C15_Witness ==
    /\ isIndexed
    /\ buildsSinceLoad >= 1
    /\ presentControllers # AllControllers
    /\ \E c \in ControllerNames \cap presentControllers : collections[c] = Object(<<>>)
    /\ searchIndex # <<>>

\* C18: after buildSearchIndex, whatever the controllers loaded (array or
\* keyed-object form, duplicate ids included), no two entries of the index
\* with the same type have the same id.
C18_IdUniqueWithinType ==
    \A i \in DOMAIN searchIndex : \A j \in DOMAIN searchIndex :
        (i # j /\ searchIndex[i].type = searchIndex[j].type) =>
            searchIndex[i].id # searchIndex[j].id

-----------------------------------------------------------------------------
(* Properties of the view classes *)

\* the kind of the back panel the route table declares for route, "none"
\* where the table declares no back panel for it
BackPanelKind(route) ==
    IF route \in RouteKeys /\ Routes(route).layout = "three-walls"
    THEN Routes(route).backWall.type
    ELSE "none"

\* a leaf: the back-panel kind exists and is not one of the three bare kinds
IsLeaf(route) ==
    BackPanelKind(route) \notin {"none", "empty", "section-title", "photo-space"}

\* the first stage of a render from the table has run for the navigation the
\* router's fields describe, and its timer has not fired
FirstStageDone ==
    /\ roomView.kind = "cleared"
    /\ Len(pendingRenders) = 1
    /\ pendingRenders[1].kind = "walls"
    /\ pendingRenders[1].route = currentRoute

\* C21: when the navigation is not a forward one, the class the render gives
\* the room is view-left (view-right) if and only if the route is not /about,
\* is a leaf and the clicked wall was left (right); otherwise it is the
\* default empty class.
C21_SideViewIffLeafAndSideWall ==
    (FirstStageDone /\ ~isForwardNavigation(previousRoute, currentRoute)) =>
        /\ roomView.class = "view-left" <=>
              (currentRoute # About /\ IsLeaf(currentRoute) /\ lastClickedWall = "left")
        /\ roomView.class = "view-right" <=>
              (currentRoute # About /\ IsLeaf(currentRoute) /\ lastClickedWall = "right")
        /\ roomView.class \in {"view-left", "view-right", ""}

\* a leaf other than /about was reached through a right wall without going
\* deeper, and the room has the class view-right
C21_Witness ==
    /\ FirstStageDone
    /\ ~isForwardNavigation(previousRoute, currentRoute)
    /\ lastClickedWall = "right"
    /\ IsLeaf(currentRoute)
    /\ currentRoute # About
    /\ roomView.class = "view-right"

-----------------------------------------------------------------------------
(* Properties of the back button *)

\* no render timer and no awaited controller fetch is pending, and the
\* router has handled at least one route
Quiescent == pendingRenders = <<>> /\ navigationHistory # <<>>

\* C22: whenever the router is quiescent, the back button is disabled if and
\* only if currentRoute is '', whatever kind of route was reached (static,
\* controller-handled, NotFound).
C22_BackButtonDisabledIffHome ==
    Quiescent => (backButtonDisabled <=> currentRoute = Home)

-----------------------------------------------------------------------------
(* Properties of the ContentLoader *)

\* C23: prefetchContent(path) issues no fetch when the content of path is
\* already cached or a prefetch of it is in flight, so that calls for one path
\* whose first fetch succeeds issue one fetch in all; and the in-flight mark of
\* the path is removed whenever its fetch settles.
C23_PrefetchFetchesOnce ==
    [][/\ \A path \in ContentPaths :
             (/\ prefetchContent(path)
              /\ CacheHas(cache, FullPath(path)) \/ path \in loadingStates)
                => fetching' = fetching
       /\ \A k \in DOMAIN fetching, outcome \in FetchOutcomes :
             prefetchSettled(k, outcome) => fetching[k].path \notin loadingStates']_vars

-----------------------------------------------------------------------------
(* Properties of the theme *)

\* C24: a change of the system's colour scheme updates the theme only if the
\* visitor has set no manual preference; as long as the visitor has never
\* toggled the theme, every change of the scheme is applied to currentTheme
\* and the preference key stays absent.
C24_SchemeFollowedUntilManualChoice ==
    [][/\ (systemSchemeChange /\ toggledManually) => currentTheme' = currentTheme
       /\ (systemSchemeChange /\ ~toggledManually) =>
             currentTheme' = SchemeTheme(prefersDark')
       /\ ~toggledManually' => savedTheme' = "null"]_vars

-----------------------------------------------------------------------------
(* Properties of history traversal *)

\* a step of one of the two listeners a traversal runs
TraversalStep == Traverse \/ TraversalHashChange

\* C25: a traversal of the browser's history, which may deliver a popstate and
\* a hashchange, calls navigateTo at most once and pushes no history entry;
\* once its events are handled, currentRoute is the route of the URL fragment.
C25_TraversalNavigatesOnce ==
    [][/\ TraversalStep => browserHistory' = browserHistory
       /\ TraversalStep => Len(navigationHistory') <= Len(navigationHistory) + 1
       /\ (TraversalHashChange /\ routerCall = "popstate") =>
             navigationHistory' = navigationHistory
       /\ (TraversalStep /\ ~hashChangePending') => currentRoute' = locationHash']_vars

\* both listeners have run for a traversal to a pushed entry of another
\* route: the popstate listener navigated and the hashchange listener did not
C25_Witness ==
    /\ routerCall = "popstate, hashchange"
    /\ ~hashChangePending
    /\ currentRoute = locationHash
    /\ currentRoute # Home
    /\ previousRoute # currentRoute

-----------------------------------------------------------------------------
(* Properties of the lightbox *)

\* rendered shows item: it has every field of item, with the same value
Shows(rendered, item) ==
    /\ DOMAIN item \subseteq DOMAIN rendered
    /\ \A f \in DOMAIN item : rendered[f] = item[f]

\* C26: whenever the lightbox is open with a non-null content array,
\* 0 <= currentIndex < contentArray.length and the item shown is
\* contentArray[currentIndex], after every open and after every navigateNext
\* and navigatePrevious.
C26_IndexWithinContentArray ==
    (lightbox.isOpen /\ ~lightbox.contentArray.isNull) =>
        /\ 0 <= lightbox.currentIndex
        /\ lightbox.currentIndex < Len(lightbox.contentArray.items)
        /\ Shows(lightbox.rendered, ItemAt(lightbox, lightbox.currentIndex))

\* a step in which open() is called
OpenStep ==
    \/ \E c \in ControllerNames : \E id \in CallIds(c) : OpenCall(c, id)
    \/ ArticleLoadDone
    \/ OpenResultTimer

\* C27: once open() has returned, the lightbox stays open with its content and
\* its content array until close() is called again, also when that open() came
\* after a close() whose deferred hide had not run yet.
C27_OpenStaysOpenUntilClose ==
    [][(lightbox.isOpen /\ ~lightbox.closeCalled) =>
          /\ lightbox'.isOpen
          /\ \/ OpenStep
             \/ /\ lightbox'.currentContent = lightbox.currentContent
                /\ lightbox'.contentArray = lightbox.contentArray]_vars

-----------------------------------------------------------------------------
(* Properties of the gallery shortcuts *)

\* C28: ArrowLeft and ArrowRight pressed outside an input with the search
\* closed raise nothing; with no gallery loaded they change nothing, and with a
\* gallery loaded they keep currentPhotoIndex within 0 .. length - 1.
C28_GalleryKeysNeverThrow ==
    [][\A key \in GalleryKeys :
          ~isSearchOpen /\ KeyStep(key, "document") =>
             /\ thrown' = thrown
             /\ galleryPhotos.isNull =>
                   UNCHANGED <<galleryPhotos, currentPhotoIndex>>
             /\ ~galleryPhotos.isNull =>
                   currentPhotoIndex' \in 0 .. Len(galleryPhotos.items) - 1]_vars

\* the same steps once a gallery has been rendered
GalleryKeysInRange ==
    [][\A key \in GalleryKeys :
          ~isSearchOpen /\ ~galleryPhotos.isNull /\ KeyStep(key, "document") =>
             /\ thrown' = thrown
             /\ currentPhotoIndex' \in 0 .. Len(galleryPhotos.items) - 1]_vars

\* a gallery step moved the index
GalleryMoved == ~galleryPhotos.isNull /\ currentPhotoIndex > 0

-----------------------------------------------------------------------------
(* Properties of the routes of search results *)

\* a step that is selectResult on the i-th rendered result
SelectStep(i) ==
    /\ isSearchOpen
    /\ selectResult(i - 1)
    /\ UNCHANGED <<contentVars, hashChangePending, loaderVars, callVars, lightbox,
                   sitemapHidden, themeVars, thrown>>

\* C29: the route of every entry buildSearchIndex produces renders a room, so
\* activating a search result never leaves the room showing NotFound.
C29_SearchResultsRenderARoom ==
    [][\A i \in DOMAIN currentResults : SelectStep(i) => ~roomView'.notFound]_vars

\* the same for the results whose route is a key of the route table
TableResultsRenderARoom ==
    [][\A i \in DOMAIN currentResults :
          currentResults[i].route \in RouteKeys /\ SelectStep(i) =>
             ~roomView'.notFound]_vars

-----------------------------------------------------------------------------
(* Properties of the shipped route table *)

SideViews == {"view-left", "view-right"}

\* C30: with the shipped route table no sequence of wall clicks, goBack calls,
\* shortcuts, sitemap navigations and fragment changes reaches a render whose
\* view class is view-left or view-right: neither the room carries such a
\* class nor does getViewClass return one for the router's fields.
C30_NoSideViewReachable ==
    /\ roomView.class \notin SideViews
    /\ getViewClass(previousRoute, currentRoute, lastClickedWall) \notin SideViews

\* a side wall has been clicked and the room it leads to has been painted
C30_Witness ==
    /\ routerCall = "clickWall"
    /\ lastClickedWall \in {"left", "right"}
    /\ currentRoute # About
    /\ roomView.kind = "static"
    /\ roomView.route = currentRoute

=============================================================================
